---- MODULE Spec2Model ----
(***************************************************************************)
(* A model of git-safety-agent: the orchestrator's execute pipeline over   *)
(* the stdio JSON-RPC channel to the MCP worker, the confirmation gate,    *)
(* the plan validator, and the policy engine (workspace confinement,       *)
(* sensitive files, forbidden git arguments).                              *)
(***************************************************************************)
EXTENDS Integers, Sequences, FiniteSets, TLC

VARIABLES
    plan,        \* the Plan object held by the caller (UI session / API request)
    pc,          \* Orchestrator.execute position: "idle" | "wait"
    idx,         \* index of the step whose tools/call is outstanding
    confirmed,   \* the confirmed argument of the current execute call
    results,     \* execute's local list `results`
    outcome,     \* how the last execute call ended: "none" | "running" | "returned" | "raised"
    ret,         \* the record the last execute call returned
    runs,        \* number of execute calls made so far
    mcp_id,      \* MCPClient._id
    stdin,       \* request lines written to the worker and not yet read by it
    stdout,      \* response lines written by the worker and not yet read by the client
    alive,       \* the worker process is running
    sent,        \* tools/call requests written during the current execute call
    skipped,     \* kinds of output lines the latest _send call read and passed over
    gated,       \* apply_confirmation calls of the current execute call: requests sent before each
    vplan,       \* validate_plan: the Plan argument
    vtools,      \* validate_plan: the registered_tools argument
    verrors,     \* validate_plan: the returned error list
    vdone,       \* validate_plan has returned
    vraised,     \* validate_plan let an exception out
    git_args,    \* GitTool._run: the args of the last call
    git_raised,  \* GitTool._run: the last call raised PolicyError
    git_proc,    \* GitTool._run: the git subprocess the last call started
    fs_links,    \* the symbolic links present in the file system
    fs_files,    \* the regular files present in the file system
    ft_op,       \* the policy / FileTool operation that was called
    ft_path,     \* its path (or dir) argument
    ft_res,      \* what it returned or raised
    ft_opened,   \* the files it opened
    ft_written,  \* the files it wrote
    pl_text,     \* Orchestrator.plan: user_input, stripped
    pl_use_llm,  \* Orchestrator.use_llm
    pl_result,   \* the PlanResult returned
    pl_recent_branch, \* memory.session.recent_branch
    pl_done,     \* Orchestrator.plan has returned
    pl_llm,      \* what the call of the text-generation client came to
    pl_sent,     \* methods of the requests Orchestrator.plan sent to the worker
    rk_tool,     \* assess_risk: the tool argument
    rk_args,     \* assess_risk: the args argument
    rk_res,      \* assess_risk: the returned (level, reason)
    rk_done,     \* assess_risk has returned
    rg_tools,    \* ToolRegistry._tools: name -> registered handler
    rg_first,    \* name -> the handler given in the first register call for it
    rg_n,        \* number of register calls made
    rg_call,     \* the last ToolRegistry.call: its arguments and what came of it
    hd_call,     \* the write handler called and its dry_run argument
    hd_env,      \* what the handler's queries find in the repository and file system
    hd_args,     \* what the handler's tests find in its arguments
    hd_out       \* the git commands the call ran, its file effects, its result

execVars == <<plan, pc, idx, confirmed, results, outcome, ret, runs,
              mcp_id, stdin, stdout, alive, sent, skipped, gated>>

valVars == <<vplan, vtools, verrors, vdone, vraised>>

gitVars == <<git_args, git_raised, git_proc>>

fileVars == <<fs_links, fs_files, ft_op, ft_path, ft_res, ft_opened, ft_written>>

planVars == <<pl_text, pl_use_llm, pl_result, pl_recent_branch, pl_done, pl_llm, pl_sent>>

riskVars == <<rk_tool, rk_args, rk_res, rk_done>>

regVars == <<rg_tools, rg_first, rg_n, rg_call>>

hdVars == <<hd_call, hd_env, hd_args, hd_out>>

nonExecVars == <<valVars, gitVars, fileVars, planVars, riskVars, regVars, hdVars>>

nonValVars == <<execVars, gitVars, fileVars, planVars, riskVars, regVars, hdVars>>

nonGitVars == <<execVars, valVars, fileVars, planVars, riskVars, regVars, hdVars>>

nonFileVars == <<execVars, valVars, gitVars, planVars, riskVars, regVars, hdVars>>

nonPlanVars == <<execVars, valVars, gitVars, fileVars, riskVars, regVars, hdVars>>

nonRiskVars == <<execVars, valVars, gitVars, fileVars, planVars, regVars, hdVars>>

\* What neither the orchestrator, the client nor the worker touches
nonWorkerVars == <<valVars, gitVars, fileVars, planVars, riskVars, hdVars>>

nonRegVars == <<execVars, valVars, gitVars, fileVars, planVars, riskVars, hdVars>>

nonHdVars == <<execVars, valVars, gitVars, fileVars, planVars, riskVars, regVars>>

vars == <<execVars, valVars, gitVars, fileVars, planVars, riskVars, regVars, hdVars>>

-----------------------------------------------------------------------------
(* Bounds *)

MaxSteps == 3
MaxRuns == 2
MaxValSteps == 2
MaxGitTokens == 3
MaxPathLen == 3
MaxWords == 2
MaxLLMSteps == 2
MaxWriteCount == 12

(* Data *)

Levels == {"low", "medium", "high"}

EmptyArgs == [k \in {} |-> ""]

\* gsa.mcp.server.MCPServer._register_tools
RegisteredTools ==
    {"git_status", "git_diff", "git_log", "git_log_graph", "git_branch_list",
     "git_remote_list", "git_show",
     "git_init", "git_add", "git_commit", "git_switch", "git_create_branch",
     "git_delete_branch", "git_stash_push", "git_stash_pop", "git_merge",
     "file_list", "file_read", "file_write", "file_patch", "file_search",
     "index_build", "index_status", "index_search", "repo_summarize",
     "organize_suggestions"}

\* gsa.agent.schema.Step; safety_reason, like every text whose content
\* matters, is a sequence of characters
Step(tool, args, level, reason, dry) ==
    [tool |-> tool, args |-> args, safety_level |-> level,
     safety_reason |-> reason, dry_run |-> dry]

\* Steps a planner (rule-based or text-generation) can hand to execute.
StepPool ==
    { Step("git_status", EmptyArgs, "low", <<"r", "o">>, TRUE),
      Step("git_status", EmptyArgs, "low", <<"r", "o">>, FALSE),
      Step("git_commit", ("message" :> <<"m">>), "medium", <<"c">>, TRUE),
      Step("git_commit", ("message" :> <<"m">>), "medium", <<"c">>, FALSE),
      Step("file_write", ("path" :> <<"a">>) @@ ("dry_run" :> FALSE), "high", <<"w">>, TRUE),
      Step("git_rebase", EmptyArgs, "medium", <<"u">>, TRUE) }

RECURSIVE SeqsUpTo(_, _)
SeqsUpTo(S, n) ==
    IF n = 0 THEN {<<>>}
    ELSE LET shorter == SeqsUpTo(S, n - 1)
         IN  shorter \cup {Append(q, x) : q \in {r \in shorter : Len(r) = n - 1}, x \in S}

\* gsa.agent.schema.Plan
Plan(intent, questions, needs, steps) ==
    [intent |-> intent, questions |-> questions,
     needs_confirmation |-> needs, steps |-> steps]

ExecPlans == {Plan("i", <<>>, TRUE, st) : st \in SeqsUpTo(StepPool, MaxSteps)}

-----------------------------------------------------------------------------
(* Confirmation gate: gsa.safety.confirmer *)

\* ConfirmStep without the risk-level test: low-risk steps are lifted too
ConfirmStep_AllLevels(s) == [s EXCEPT !.dry_run = FALSE]

ConfirmStep(s) ==
    IF s.safety_level \in {"medium", "high"} THEN [s EXCEPT !.dry_run = FALSE] ELSE s

apply_confirmation(p, c) ==
    IF c
    THEN [p EXCEPT !.steps = [k \in 1..Len(p.steps) |-> ConfirmStep(p.steps[k])]]
    ELSE p

-----------------------------------------------------------------------------
(* JSON-RPC lines: gsa.mcp.client / gsa.mcp.server *)

NoResult == [ok |-> FALSE, dry_run |-> FALSE]

\* A request line that holds a JSON object
Request(id, method, params) ==
    [kind |-> "object", id |-> id, method |-> method, params |-> params]

\* params of a request: the fields handle reads, "" where one is missing
Params(name, args, uri) == [name |-> name, args |-> args, uri |-> uri]

\* An input line that is empty after strip()
BlankRequest == [kind |-> "blank", id |-> 0, method |-> "", params |-> Params("", EmptyArgs, "")]

\* An input line json.loads rejects
GarbageRequest == [kind |-> "garbage", id |-> 0, method |-> "", params |-> Params("", EmptyArgs, "")]

\* An input line that is JSON but not an object: request.get does not exist
NonObjectRequest ==
    [kind |-> "nonobject", id |-> 0, method |-> "", params |-> Params("", EmptyArgs, "")]

ResultLine(id, r) == [id |-> id, kind |-> "result", result |-> r, message |-> ""]

ErrorLine(id, m) == [id |-> id, kind |-> "error", result |-> NoResult, message |-> m]

\* An output line json.loads rejects
GarbageLine == [id |-> 0, kind |-> "garbage", result |-> NoResult, message |-> ""]

\* An output line that is JSON but not an object (a number, a list): no .get
NonObjectLine == [id |-> 0, kind |-> "nonobject", result |-> NoResult, message |-> ""]

\* A test that takes every response line for the answer
Matches_Any(line, id) == TRUE

\* resp.get("id") == self._id
Matches(line, id) == line.id = id

\* What a registered handler can do with a call: return ok=true, return
\* ok=false, or raise (PolicyError, TypeError on a missing argument, ...).
HandlerOutcomes == {"ok", "not_ok", "raise"}

\* dict.get("dry_run") on the arguments the handler receives; handlers default to True
ArgDryRun(args) == IF "dry_run" \in DOMAIN args THEN args["dry_run"] ELSE TRUE

\* ToolRegistry.call: unregistered names raise ValueError, otherwise the handler runs
RegistryCall(name, args, o) ==
    IF name \notin DOMAIN rg_tools
    THEN [raised |-> TRUE, msg |-> "unregistered tool", value |-> NoResult]
    ELSE IF o = "raise" THEN [raised |-> TRUE, msg |-> "handler error", value |-> NoResult]
    ELSE [raised |-> FALSE, msg |-> "",
          value |-> [ok |-> (o = "ok"), dry_run |-> ArgDryRun(args)]]

\* MCPServer._resources_list
ResourceUris == {"workspace/info", "index/status", "logs/recent", "dir/summary"}

\* MCPServer.handle: every exception becomes an error response with the request's id
Handle(req, o) ==
    IF req.method = "tools/call"
    THEN LET r == RegistryCall(req.params.name, req.params.args, o)
         IN  IF r.raised THEN ErrorLine(req.id, r.msg) ELSE ResultLine(req.id, r.value)
    ELSE IF req.method \in {"tools/list", "resources/list"}
    THEN ResultLine(req.id, [ok |-> TRUE, dry_run |-> TRUE])
    ELSE IF req.method = "resources/read"
    THEN IF req.params.uri \in ResourceUris
         THEN ResultLine(req.id, [ok |-> TRUE, dry_run |-> TRUE])
         ELSE ErrorLine(req.id, "unknown resource")
    ELSE ErrorLine(req.id, "unknown method")

\* A one-character string holding a lone surrogate, as json.loads returns
\* for the escape \ud800
LoneSurrogate == "U+D800"

\* str.encode("utf-8") succeeds: the text holds no lone surrogate
Utf8Encodable(text) == text # LoneSurrogate

\* The request's strings that handle's response repeats: the name of an
\* unregistered tool, inside the ValueError message of ToolRegistry.call
Echoed(req) ==
    IF req.method = "tools/call" /\ req.params.name \notin DOMAIN rg_tools
    THEN {req.params.name}
    ELSE {}

\* sys.stdout.write(json.dumps(resp, ensure_ascii=False)) returns; otherwise
\* UnicodeEncodeError leaves main
StdoutWrites(req) == \A text \in Echoed(req) : Utf8Encodable(text)

-----------------------------------------------------------------------------
(* Orchestrator.execute: gsa.agent.orchestrator *)

NoRet == [trace_id |-> "", summary |-> [total |-> 0, ok |-> 0], results |-> <<>>]

\* Orchestrator._summarize_results: (total, succeeded)
SummarizeResults(res) ==
    [total |-> Len(res), ok |-> Cardinality({k \in 1..Len(res) : res[k].ok})]

OkEntry(tool, resp) == [tool |-> tool, ok |-> TRUE, result |-> resp, error |-> ""]

FailEntry(tool, msg) == [tool |-> tool, ok |-> FALSE, result |-> NoResult, error |-> msg]

\* A handler that names only the client's own error class
ExecCatches_RuntimeOnly(cls) == cls = "RuntimeError"

\* `except Exception` in execute's loop: every exception class raised by
\* call_tool (RuntimeError from _send, BrokenPipeError from the pipe,
\* AttributeError from resp.get on a line that is not an object) is caught
ExecCatches(cls) == cls \in {"RuntimeError", "BrokenPipeError", "AttributeError"}

\* The gate run again at the top of every iteration of the loop
GateCalls_EveryStep(k) == <<k>>

\* The apply_confirmation calls execute makes once k tools/call requests of
\* this call are out: line 55 lies before the loop, the loop body has none
GateCalls(k) == IF k = 0 THEN <<k>> ELSE <<>>

\* The merge with the operands the other way round: a key of step.args wins
CallArgs_ArgsWin(s) == s.args @@ ("dry_run" :> s.dry_run)

\* step.args | {"dry_run": step.dry_run}
CallArgs(s) == ("dry_run" :> s.dry_run) @@ s.args

\* Lines 76-84: summary, report, return
ExecReturn(res) ==
    /\ pc' = "idle"
    /\ results' = res
    /\ outcome' = "returned"
    /\ ret' = [trace_id |-> "t", summary |-> SummarizeResults(res), results |-> res]

\* Lines 71-74 when call_tool raised for step k
ExecRaise(steps, k, res, cls, msg) ==
    IF ExecCatches(cls)
    THEN ExecReturn(Append(res, FailEntry(steps[k].tool, msg)))
    ELSE /\ pc' = "idle"
         /\ results' = res
         /\ outcome' = "raised"
         /\ ret' = NoRet

\* The loop from the top of iteration k: either the loop is over and execute
\* returns, or call_tool -> MCPClient._send writes the request for step k.
ExecIterate(steps, k, res, log) ==
    IF k > Len(steps)
    THEN /\ ExecReturn(res)
         /\ sent' = log
         /\ UNCHANGED <<idx, mcp_id, stdin, skipped>>
    ELSE IF alive
    THEN /\ mcp_id' = mcp_id + 1
         /\ stdin' = Append(stdin, Request(mcp_id + 1, "tools/call",
                                   Params(steps[k].tool, CallArgs(steps[k]), "")))
         /\ sent' = Append(log, [idx |-> k, id |-> mcp_id + 1, tool |-> steps[k].tool,
                                 safety_level |-> steps[k].safety_level,
                                 dry_run |-> CallArgs(steps[k])["dry_run"],
                                 confirmed |-> confirmed'])
         /\ pc' = "wait"
         /\ idx' = k
         /\ results' = res
         /\ outcome' = "running"
         /\ ret' = NoRet
         /\ skipped' = {}
    ELSE \* the worker is gone: stdin.write/flush raises BrokenPipeError
         /\ mcp_id' = mcp_id + 1
         /\ ExecRaise(steps, k, res, "BrokenPipeError", "broken pipe")
         /\ sent' = log
         /\ idx' = k
         /\ skipped' = {}
         /\ UNCHANGED stdin

\* execute(plan, trace_id, confirmed=c) is called
Execute(c) ==
    /\ pc = "idle"
    /\ runs < MaxRuns
    /\ runs' = runs + 1
    /\ confirmed' = c
    /\ gated' = GateCalls(0)
    /\ plan' = apply_confirmation(plan, c)
    /\ ExecIterate(plan'.steps, 1, <<>>, <<>>)
    /\ UNCHANGED <<stdout, alive>>
    /\ UNCHANGED nonExecVars

\* ClientRead with the `break` of the except branch missing: the loop goes on
ClientRead_NoBreak ==
    /\ pc = "wait"
    /\ stdout # <<>>
    /\ stdout' = Tail(stdout)
    /\ confirmed' = confirmed
    /\ LET line == Head(stdout)
           tool == plan.steps[idx].tool
       IN  IF line.kind = "garbage"
           THEN /\ skipped' = skipped \cup {"garbage"}
                /\ UNCHANGED <<pc, idx, results, outcome, ret, mcp_id, stdin, sent, gated>>
           ELSE IF line.kind = "nonobject"
           THEN /\ ExecRaise(plan.steps, idx, results, "AttributeError", "no attribute get")
                /\ UNCHANGED <<idx, mcp_id, stdin, sent, skipped, gated>>
           ELSE IF ~Matches(line, mcp_id)
           THEN /\ skipped' = skipped \cup {"other_id"}
                /\ UNCHANGED <<pc, idx, results, outcome, ret, mcp_id, stdin, sent, gated>>
           ELSE IF line.kind = "error"
           THEN /\ ExecIterate(plan.steps, idx + 1,
                                Append(results, FailEntry(tool, line.message)), sent)
                /\ gated' = IF idx + 1 > Len(plan.steps)
                            THEN gated
                            ELSE gated \o GateCalls(idx)
           ELSE /\ ExecIterate(plan.steps, idx + 1,
                                Append(results, OkEntry(tool, line.result)), sent)
                /\ gated' = IF idx + 1 > Len(plan.steps)
                            THEN gated
                            ELSE gated \o GateCalls(idx)
    /\ UNCHANGED <<plan, runs, alive>>
    /\ UNCHANGED nonExecVars

\* MCPClient._send, one readline: a line with the outstanding id ends the call
ClientRead ==
    /\ pc = "wait"
    /\ stdout # <<>>
    /\ stdout' = Tail(stdout)
    /\ confirmed' = confirmed
    /\ LET line == Head(stdout)
           tool == plan.steps[idx].tool
       IN  IF line.kind = "garbage"
           THEN /\ skipped' = skipped \cup {"garbage"}
                /\ UNCHANGED <<pc, idx, results, outcome, ret, mcp_id, stdin, sent, gated>>
           ELSE IF line.kind = "nonobject"
           THEN /\ ExecRaise(plan.steps, idx, results, "AttributeError", "no attribute get")
                /\ UNCHANGED <<idx, mcp_id, stdin, sent, skipped, gated>>
           ELSE IF ~Matches(line, mcp_id)
           THEN /\ skipped' = skipped \cup {"other_id"}
                /\ UNCHANGED <<pc, idx, results, outcome, ret, mcp_id, stdin, sent, gated>>
           ELSE IF line.kind = "error"
           THEN /\ ExecRaise(plan.steps, idx, results, "RuntimeError", line.message)
                /\ UNCHANGED <<idx, mcp_id, stdin, sent, skipped, gated>>
           ELSE /\ ExecIterate(plan.steps, idx + 1,
                                Append(results, OkEntry(tool, line.result)), sent)
                /\ gated' = IF idx + 1 > Len(plan.steps)
                            THEN gated
                            ELSE gated \o GateCalls(idx)
    /\ UNCHANGED <<plan, runs, alive>>
    /\ UNCHANGED nonExecVars

\* MCPClient._send, readline returns '' : the channel is closed
ClientEOF ==
    /\ pc = "wait"
    /\ stdout = <<>>
    /\ ~alive
    /\ ExecRaise(plan.steps, idx, results, "RuntimeError", "connection closed")
    /\ UNCHANGED <<plan, idx, confirmed, runs, mcp_id, stdin, stdout, alive, sent, skipped, gated>>
    /\ UNCHANGED nonExecVars

\* A handle that registers the name of a tools/call it does not know
RegistryAfter_AutoRegister(reg, req) ==
    IF req.method = "tools/call" /\ req.params.name \notin DOMAIN reg
    THEN (req.params.name :> req.params.name) @@ reg
    ELSE reg

\* registry._tools after handle(req): handle, ToolRegistry.call and
\* list_tools hold no assignment to it
RegistryAfter(reg, req) == reg

\* ToolRegistry.list_tools: the names of the table
list_tools == DOMAIN rg_tools

\* An exception leaves main: the process ends, unread requests are lost
WorkerDies ==
    /\ alive' = FALSE
    /\ stdin' = <<>>
    /\ UNCHANGED stdout

\* gsa.mcp.server.main: read one request line, handle it, write the response
WorkerServe ==
    /\ alive
    /\ stdin # <<>>
    /\ LET req == Head(stdin)
       IN  IF req.kind \in {"blank", "garbage"}
           THEN /\ stdin' = Tail(stdin)
                /\ UNCHANGED <<stdout, alive>>
                /\ UNCHANGED rg_tools
           ELSE IF req.kind = "nonobject"
           THEN WorkerDies /\ UNCHANGED rg_tools
           ELSE IF ~StdoutWrites(req)
           THEN WorkerDies /\ rg_tools' = RegistryAfter(rg_tools, req)
           ELSE /\ \E o \in HandlerOutcomes :
                     stdout' = Append(stdout, Handle(req, o))
                /\ stdin' = Tail(stdin)
                /\ rg_tools' = RegistryAfter(rg_tools, req)
                /\ UNCHANGED alive
    /\ UNCHANGED <<plan, pc, idx, confirmed, results, outcome, ret, runs, mcp_id, sent, skipped, gated>>
    /\ UNCHANGED <<rg_first, rg_n, rg_call>>
    /\ UNCHANGED nonWorkerVars

\* The worker process exits (crash, kill): unread requests are lost
WorkerExit ==
    /\ alive
    /\ alive' = FALSE
    /\ stdin' = <<>>
    /\ UNCHANGED <<plan, pc, idx, confirmed, results, outcome, ret, runs, mcp_id, stdout, sent, skipped, gated>>
    /\ UNCHANGED nonExecVars

ExecInit ==
    /\ plan \in ExecPlans
    /\ pc = "idle"
    /\ idx = 0
    /\ confirmed = FALSE
    /\ results = <<>>
    /\ outcome = "none"
    /\ ret = NoRet
    /\ runs = 0
    /\ mcp_id = 0
    /\ stdin = <<>>
    /\ stdout = <<>>
    /\ alive = TRUE
    /\ sent = <<>>
    /\ skipped = {}
    /\ gated = <<>>

ExecNext ==
    \/ \E c \in BOOLEAN : Execute(c)
    \/ ClientRead
    \/ ClientEOF
    \/ WorkerServe
    \/ WorkerExit

-----------------------------------------------------------------------------
(* Plan validator: gsa.safety.validator, gsa.safety.policy.limit_write_steps *)

WRITE_TOOLS ==
    {"git_init", "git_add", "git_commit", "git_switch", "git_create_branch",
     "git_delete_branch", "git_stash_push", "git_stash_pop", "git_merge",
     "file_write", "file_patch"}

MaxWriteSteps == 10

\* An error string of validate_plan: which message, and the tool it names
Err(kind, tool) == [kind |-> kind, tool |-> tool]

\* The limit reached already by the tenth write step
limit_write_steps_AtLeast(total_steps) ==
    IF total_steps >= MaxWriteSteps THEN <<"PolicyError">> ELSE <<>>

\* limit_write_steps raises PolicyError when total_steps > 10
limit_write_steps(total_steps) ==
    IF total_steps > MaxWriteSteps THEN <<"PolicyError">> ELSE <<>>

\* if not plan.steps and not plan.questions
EmptyErrors(p) ==
    IF p.steps = <<>> /\ p.questions = <<>> THEN <<Err("steps_empty_needs_questions", "")>> ELSE <<>>

\* for step in plan.steps: if step.tool not in tools
RECURSIVE UnregisteredErrors(_, _)
UnregisteredErrors(steps, tools) ==
    IF steps = <<>> THEN <<>>
    ELSE (IF Head(steps).tool \notin tools THEN <<Err("unregistered_tool", Head(steps).tool)>> ELSE <<>>)
         \o UnregisteredErrors(Tail(steps), tools)

IsWriteStep(s) == s.tool \in WRITE_TOOLS

\* write_steps = [s for s in plan.steps if s.tool in WRITE_TOOLS]
WriteSteps(steps) == SelectSeq(steps, IsWriteStep)

\* `except Exception` around limit_write_steps: PolicyError is a RuntimeError
ValCatches(cls) == cls \in {"PolicyError", "RuntimeError", "ValueError"}

\* try: limit_write_steps(len(write_steps)) except Exception: errors.append(str(exc))
VolumeErrors(ws) ==
    IF limit_write_steps(Len(ws)) # <<>> /\ ValCatches(limit_write_steps(Len(ws))[1])
    THEN <<Err("too_many_write_steps", "")>> ELSE <<>>

\* An exception of limit_write_steps that the except clause does not name
\* leaves validate_plan
ValidateRaises(p) ==
    /\ WriteSteps(p.steps) # <<>>
    /\ limit_write_steps(Len(WriteSteps(p.steps))) # <<>>
    /\ ~ValCatches(limit_write_steps(Len(WriteSteps(p.steps)))[1])

\* The confirmation rule applied only when some write step is rated medium/high
ConfirmationErrors_OnlyRisky(p, ws) ==
    IF ~p.needs_confirmation /\ \E k \in 1..Len(ws) : ws[k].safety_level \in {"medium", "high"}
    THEN <<Err("needs_confirmation_false", "")>> ELSE <<>>

\* if not plan.needs_confirmation (inside `if write_steps`)
ConfirmationErrors(p, ws) ==
    IF ~p.needs_confirmation THEN <<Err("needs_confirmation_false", "")>> ELSE <<>>

\* for s in write_steps: risk level and reason checks
\* The risk rules applied to the first write step only
RiskErrors_FirstOnly(ws) ==
    IF ws = <<>> THEN <<>>
    ELSE (IF Head(ws).safety_level \notin {"medium", "high"}
          THEN <<Err("write_step_low_risk", Head(ws).tool)>> ELSE <<>>)
         \o (IF Head(ws).safety_reason = <<>>
             THEN <<Err("write_step_no_reason", Head(ws).tool)>> ELSE <<>>)

RECURSIVE RiskErrors(_)
RiskErrors(ws) ==
    IF ws = <<>> THEN <<>>
    ELSE (IF Head(ws).safety_level \notin {"medium", "high"}
          THEN <<Err("write_step_low_risk", Head(ws).tool)>> ELSE <<>>)
         \o (IF Head(ws).safety_reason = <<>>
             THEN <<Err("write_step_no_reason", Head(ws).tool)>> ELSE <<>>)
         \o RiskErrors(Tail(ws))

validate_plan(p, registered_tools) ==
    LET ws == WriteSteps(p.steps)
    IN  EmptyErrors(p)
        \o UnregisteredErrors(p.steps, registered_tools)
        \o (IF ws # <<>>
            THEN VolumeErrors(ws) \o ConfirmationErrors(p, ws) \o RiskErrors(ws)
            ELSE <<>>)

\* The message "存在写操作但 needs_confirmation=false" is the one that
\* mentions needs_confirmation
MentionsNeedsConfirmation(e) == e.kind = "needs_confirmation_false"

\* Steps handed to the validator: any tool with any rating and reason
ValStepPool ==
    { Step(t, EmptyArgs, l, r, TRUE) :
        t \in {"git_status", "git_commit", "file_write", "git_rebase"},
        l \in Levels, r \in {<<>>, <<"w", "h", "y">>} }

ValPlans ==
    { Plan("i", q, n, st) :
        q \in {<<>>, <<"which branch?">>}, n \in BOOLEAN,
        st \in SeqsUpTo(ValStepPool, MaxValSteps) }

\* registered_tools as passed by the caller: the worker's list, a short list, none
ValToolSets == {RegisteredTools, {"git_commit"}, {}}

ValInit ==
    /\ vplan \in ValPlans
    /\ vtools \in ValToolSets
    /\ verrors = <<>>
    /\ vdone = FALSE
    /\ vraised = FALSE

\* errors = validate_plan(plan, registered_tools)
Validate ==
    /\ ~vdone
    /\ vraised' = ValidateRaises(vplan)
    /\ verrors' = IF ValidateRaises(vplan) THEN <<>> ELSE validate_plan(vplan, vtools)
    /\ vdone' = TRUE
    /\ UNCHANGED <<vplan, vtools>>
    /\ UNCHANGED nonValVars

ValNext == Validate

\* n copies of step s
Repeat(s, n) == [k \in 1..n |-> s]

\* The write step a long plan repeats: any rating, with or without a reason
LongWritePool ==
    { Step("git_commit", EmptyArgs, l, r, TRUE) : l \in Levels, r \in {<<>>, <<"w", "h", "y">>} }

\* Long plans: nothing or one step of any kind, then up to MaxWriteCount
\* copies of a write step
LongPlans ==
    { Plan("i", q, n, head \o Repeat(w, c)) :
        q \in {<<>>, <<"which branch?">>}, n \in BOOLEAN,
        head \in SeqsUpTo(ValStepPool, 1), w \in LongWritePool, c \in 0..MaxWriteCount }

LongInit ==
    /\ vplan \in LongPlans
    /\ vtools \in ValToolSets
    /\ verrors = <<>>
    /\ vdone = FALSE
    /\ vraised = FALSE

-----------------------------------------------------------------------------
(* Claims about execute and the confirmation gate *)

MediumHigh == {"medium", "high"}

\* C1: a medium/high step is sent to the worker with dry_run=false only
\* inside an execute call made with confirmed=true.
C1_RealOnlyWhenConfirmed ==
    \A k \in 1..Len(sent) :
        (sent[k].safety_level \in MediumHigh /\ ~sent[k].dry_run) => sent[k].confirmed

\* C2: a handler result with ok=false is recorded as a failed step and halts
\* the run: no entry marked ok=true carries a handler result with ok=false,
\* and no request follows such a step.
C2_HandlerFailureHalts ==
    \A k \in 1..Len(results) :
        ~results[k].result.ok => (~results[k].ok /\ Len(sent) <= k)

\* C3: requests go out one at a time in plan order, request i+1 only after
\* response i; when the call for step k raises, nothing is sent after k and
\* results holds k entries: k-1 successes in plan order, then the failure.
C3_SequentialAndHalting ==
    /\ Len(stdin) + Len(stdout) <= 1
    /\ \A k \in 1..Len(sent) : sent[k].idx = k /\ sent[k].tool = plan.steps[k].tool
    /\ \A k \in 1..Len(results) : results[k].tool = plan.steps[k].tool
    /\ \A k \in 1..(Len(results) - 1) : results[k].ok
    /\ pc = "wait" =>
          /\ Len(sent) = Len(results) + 1
          /\ idx = Len(sent)
          /\ \A k \in 1..Len(results) : results[k].ok
    /\ (pc = "idle" /\ outcome = "returned") =>
          LET n == Len(results)
          IN  IF n > 0 /\ ~results[n].ok
              THEN /\ Len(sent) <= n
                   /\ results[n].error # ""
                   /\ stdin = <<>>
              ELSE /\ n = Len(plan.steps)
                   /\ Len(sent) = n

C3_Witness ==
    /\ pc = "idle" /\ outcome = "returned"
    /\ Len(plan.steps) = 3
    /\ Len(results) = 2
    /\ results[1].ok /\ ~results[2].ok
    /\ results[2].error = "handler error"

\* C4: apply_confirmation(plan, true) sets dry_run=false on every medium/high
\* step and leaves low steps alone; apply_confirmation(plan, false) changes
\* nothing; no field other than dry_run changes in either case.
C4_ConfirmationFrame ==
    [][runs' # runs =>
         /\ Len(plan'.steps) = Len(plan.steps)
         /\ [plan' EXCEPT !.steps = plan.steps] = plan
         /\ \A k \in 1..Len(plan.steps) :
               /\ [plan'.steps[k] EXCEPT !.dry_run = plan.steps[k].dry_run] = plan.steps[k]
               /\ plan'.steps[k].dry_run =
                     IF confirmed' /\ plan.steps[k].safety_level \in MediumHigh
                     THEN FALSE
                     ELSE plan.steps[k].dry_run]_vars

C4_Witness ==
    /\ runs > 0 /\ confirmed
    /\ \E k \in 1..Len(plan.steps) :
          plan.steps[k].tool = "file_write" /\ ~plan.steps[k].dry_run
    /\ \E k \in 1..Len(plan.steps) :
          plan.steps[k].safety_level = "low" /\ plan.steps[k].dry_run

C27_SentDryRunIsStepField ==
    /\ \A k \in 1..Len(sent) : sent[k].dry_run = plan.steps[sent[k].idx].dry_run
    /\ \A k \in 1..Len(stdin) :
          (pc = "wait" /\ stdin[k].id = mcp_id) =>
              /\ stdin[k].method = "tools/call"
              /\ stdin[k].params.name = plan.steps[idx].tool
              /\ stdin[k].params.args["dry_run"] = plan.steps[idx].dry_run

\* An unconfirmed call has sent the file_write step whose args say
\* dry_run=false, and the request on its way says dry_run=true
C27_Witness ==
    /\ pc = "wait" /\ ~confirmed
    /\ stdin # <<>>
    /\ plan.steps[idx].tool = "file_write"
    /\ plan.steps[idx].args["dry_run"] = FALSE
    /\ plan.steps[idx].dry_run
    /\ stdin[Len(stdin)].id = mcp_id
    /\ stdin[Len(stdin)].params.args["dry_run"] = TRUE
    /\ sent[Len(sent)].dry_run

\* C25: in every execute call apply_confirmation runs exactly once and
\* before the first tools/call of that call; it does not run again between
\* steps, so every request of a confirmed call, the first included, already
\* carries the gated dry_run of a medium/high step.
C25_GateOnceBeforeFirstCall ==
    /\ (runs > 0) => gated = <<0>>
    /\ (runs = 0) => gated = <<>>
    /\ \A k \in 1..Len(sent) :
          (sent[k].confirmed /\ sent[k].safety_level \in MediumHigh) => ~sent[k].dry_run

C25_Witness ==
    /\ runs > 0 /\ confirmed
    /\ Len(sent) = 3
    /\ sent[1].tool = "file_write" /\ ~sent[1].dry_run
    /\ gated = <<0>>

-----------------------------------------------------------------------------
(* Claims about validate_plan *)

HasWriteStep(p) == \E k \in 1..Len(p.steps) : p.steps[k].tool \in WRITE_TOOLS

\* C10: validate_plan returns an error mentioning needs_confirmation exactly
\* when the plan has a write-classified step and needs_confirmation=false,
\* whatever the risk levels and the registered tools.
C10_ConfirmationError ==
    vdone =>
        ((\E k \in 1..Len(verrors) : MentionsNeedsConfirmation(verrors[k]))
            <=> (HasWriteStep(vplan) /\ ~vplan.needs_confirmation))

C10_Witness ==
    /\ vdone
    /\ ~vplan.needs_confirmation
    /\ vtools = {}
    /\ Len(vplan.steps) = 2
    /\ vplan.steps[1].tool = "git_status"
    /\ vplan.steps[2].tool = "file_write" /\ vplan.steps[2].safety_level = "low"
    /\ \E k \in 1..Len(verrors) : MentionsNeedsConfirmation(verrors[k])

\* The number of errors of one kind in the returned list
CountKind(errors, kind) == Cardinality({k \in 1..Len(errors) : errors[k].kind = kind})

\* The number of steps of the plan that name a write tool
NumWriteSteps(p) == Cardinality({k \in 1..Len(p.steps) : p.steps[k].tool \in WRITE_TOOLS})

\* C11: validate_plan returns (never raises), and its list holds the
\* write-volume error, once, exactly when the plan has more than 10 steps
\* naming a write tool; read-only steps and risk levels play no part.
C11_VolumeErrorReported ==
    vdone =>
        /\ ~vraised
        /\ CountKind(verrors, "too_many_write_steps")
              = (IF NumWriteSteps(vplan) > 10 THEN 1 ELSE 0)

\* A plan of one read-only step and ten write steps rated low has passed
\* the volume check
C11_Witness ==
    /\ vdone
    /\ Len(vplan.steps) = 11
    /\ vplan.steps[1].tool = "git_status"
    /\ NumWriteSteps(vplan) = 10
    /\ vplan.steps[11].safety_level = "low"
    /\ CountKind(verrors, "too_many_write_steps") = 0

\* The errors expected of the per-step rules, by index sets over the plan
UnregisteredIdx(p, tools) == {k \in 1..Len(p.steps) : p.steps[k].tool \notin tools}

LowWriteIdx(p) ==
    {k \in 1..Len(p.steps) :
        p.steps[k].tool \in WRITE_TOOLS /\ p.steps[k].safety_level = "low"}

NoReasonWriteIdx(p) ==
    {k \in 1..Len(p.steps) :
        p.steps[k].tool \in WRITE_TOOLS /\ p.steps[k].safety_reason = <<>>}

\* C12: the five rules are checked independently and their errors add up:
\* one for empty steps with empty questions, one per step with an
\* unregistered tool, one for more than 10 write steps, one for a write step
\* with needs_confirmation=false, one per write step rated low and one per
\* write step without a reason; the list is empty exactly when no rule is
\* violated.
C12_ErrorsAccumulate ==
    vdone =>
        /\ CountKind(verrors, "steps_empty_needs_questions")
              = (IF vplan.steps = <<>> /\ vplan.questions = <<>> THEN 1 ELSE 0)
        /\ CountKind(verrors, "unregistered_tool") = Cardinality(UnregisteredIdx(vplan, vtools))
        /\ CountKind(verrors, "too_many_write_steps")
              = (IF NumWriteSteps(vplan) > 10 THEN 1 ELSE 0)
        /\ CountKind(verrors, "needs_confirmation_false")
              = (IF NumWriteSteps(vplan) > 0 /\ ~vplan.needs_confirmation THEN 1 ELSE 0)
        /\ CountKind(verrors, "write_step_low_risk") = Cardinality(LowWriteIdx(vplan))
        /\ CountKind(verrors, "write_step_no_reason") = Cardinality(NoReasonWriteIdx(vplan))
        /\ Len(verrors)
              = CountKind(verrors, "steps_empty_needs_questions")
                + CountKind(verrors, "unregistered_tool")
                + CountKind(verrors, "too_many_write_steps")
                + CountKind(verrors, "needs_confirmation_false")
                + CountKind(verrors, "write_step_low_risk")
                + CountKind(verrors, "write_step_no_reason")
        /\ \A k \in UnregisteredIdx(vplan, vtools) :
               \E e \in 1..Len(verrors) :
                   verrors[e] = Err("unregistered_tool", vplan.steps[k].tool)

\* A plan that breaks four rules at once has got all the errors: eleven
\* unregistered write steps rated low without a reason, over the volume limit
C12_Witness ==
    /\ vdone
    /\ vtools = {}
    /\ vplan.needs_confirmation
    /\ NumWriteSteps(vplan) = 11
    /\ Len(vplan.steps) = 11
    /\ Cardinality(LowWriteIdx(vplan)) = 11
    /\ Cardinality(NoReasonWriteIdx(vplan)) = 11
    /\ Len(verrors) = 11 + 1 + 11 + 11

-----------------------------------------------------------------------------
(* Forbidden git arguments: gsa.safety.policy.validate_git_args,           *)
(* gsa.tools.git_impl.GitTool._run.  Strings are sequences of characters.  *)

BLOCKED_GIT_ARGS ==
    { <<"r", "e", "s", "e", "t", " ", "-", "-", "h", "a", "r", "d">>,
      <<"c", "l", "e", "a", "n", " ", "-", "f", "d">>,
      <<"p", "u", "s", "h", " ", "-", "-", "f", "o", "r", "c", "e">>,
      <<"p", "u", "s", "h", " ", "-", "f">>,
      <<"c", "h", "e", "c", "k", "o", "u", "t", " ", "-", "-", " ", ".">> }

\* Argument tokens the handlers pass to _run (sub-commands, flags, and a
\* user-supplied string that itself contains a space)
GitTokens ==
    { <<"r", "e", "s", "e", "t">>,
      <<"-", "-", "h", "a", "r", "d">>,
      <<"p", "u", "s", "h">>,
      <<"-", "f">>,
      <<"c", "l", "e", "a", "n", " ", "-", "f", "d", "x">> }

GitArgLists == SeqsUpTo(GitTokens, MaxGitTokens) \ {<<>>}

\* " ".join(args)
RECURSIVE JoinSpace(_)
JoinSpace(args) ==
    IF args = <<>> THEN <<>>
    ELSE IF Len(args) = 1 THEN args[1]
    ELSE args[1] \o <<" ">> \o JoinSpace(Tail(args))

\* Python's `needle in hay` on strings
StrIn(needle, hay) ==
    \E i \in 1..(Len(hay) - Len(needle) + 1) :
        SubSeq(hay, i, i + Len(needle) - 1) = needle

\* The deny-list matched against each token on its own
validate_git_args_PerToken(args) ==
    \E k \in 1..Len(args) : \E blocked \in BLOCKED_GIT_ARGS : StrIn(blocked, args[k])

\* validate_git_args raises PolicyError (TRUE) or returns (FALSE)
validate_git_args(args) ==
    LET joined == JoinSpace(args)
    IN  \E blocked \in BLOCKED_GIT_ARGS : StrIn(blocked, joined)

NoGitCommand == [ran |-> FALSE, argv |-> <<>>]

\* GitTool._run(args): the policy check, then subprocess.run(["git", "-C", ws] + args)
GitRun(args) ==
    LET raised == validate_git_args(args)
    IN  /\ git_args' = args
        /\ git_raised' = raised
        /\ git_proc' = IF raised THEN NoGitCommand ELSE [ran |-> TRUE, argv |-> args]
        /\ UNCHANGED nonGitVars

GitNext == \E args \in GitArgLists : GitRun(args)

\* C8: validate_git_args fails exactly when the space-joined tokens contain
\* a deny-list fragment, also one spanning adjacent tokens, and _run starts
\* no git subprocess whose joined arguments contain such a fragment.
C8_ForbiddenArgsNeverRun ==
    LET Contains(hay, frag) ==
            \E i \in 1..Len(hay) :
                /\ i + Len(frag) - 1 <= Len(hay)
                /\ \A j \in 1..Len(frag) : hay[i + j - 1] = frag[j]
        Forbidden(args) == \E frag \in BLOCKED_GIT_ARGS : Contains(JoinSpace(args), frag)
    IN  /\ git_args # <<>> => (git_raised <=> Forbidden(git_args))
        /\ git_args # <<>> => (git_proc.ran <=> ~Forbidden(git_args))
        /\ git_proc.ran => (git_proc.argv = git_args /\ ~Forbidden(git_proc.argv))

C8_Witness ==
    /\ git_args = <<<<"p", "u", "s", "h">>, <<"-", "f">>>>
    /\ git_raised
    /\ ~git_proc.ran

-----------------------------------------------------------------------------
(* Workspace confinement and sensitive files: gsa.safety.policy,           *)
(* gsa.tools.file_impl.  A path is a list of components; its string form   *)
(* is a sequence of characters, on which the code's prefix and basename    *)
(* tests work.                                                             *)

SENSITIVE_NAMES ==
    { <<".", "e", "n", "v">>,
      <<".", "e", "n", "v", ".", "l", "o", "c", "a", "l">>,
      <<"i", "d", "_", "r", "s", "a">>,
      <<"i", "d", "_", "e", "d", "2", "5", "5", "1", "9">>,
      <<"s", "e", "c", "r", "e", "t", "s", ".", "j", "s", "o", "n">>,
      <<"t", "o", "k", "e", "n", "s", ".", "j", "s", "o", "n">> }

N_ws == <<"w", "s">>
N_ws2 == <<"w", "s", "2">>
N_etc == <<"e", "t", "c">>
N_a == <<"a">>
N_env == <<".", "e", "n", "v">>
N_lnk == <<"l", "n", "k">>
N_out == <<"o", "u", "t">>
DotDot == <<".", ".">>

\* The directories and regular files of the machine
RealDirs == {<<>>, <<N_ws>>, <<N_ws2>>, <<N_etc>>}

RealFiles == {<<N_ws, N_a>>, <<N_ws, N_env>>, <<N_etc, N_a>>, <<N_ws2, N_a>>}

\* Symbolic links that may exist in the workspace, with their targets:
\* one to a sensitive file of the workspace, one to a directory outside it
LinkTarget(l) == IF l = <<N_ws, N_lnk>> THEN <<N_ws, N_env>> ELSE <<N_etc>>

LinkCandidates == {<<N_ws, N_lnk>>, <<N_ws, N_out>>}

\* self.workspace as given to FileTool
Workspace == [abs |-> TRUE, comps |-> <<N_ws>>]

PathComponents == {DotDot, N_ws, N_ws2, N_etc, N_a, N_env, N_lnk, N_out}

\* Paths a caller can pass: absolute or relative, a few components long
Paths == [abs : BOOLEAN, comps : SeqsUpTo(PathComponents, MaxPathLen)]

Front(q) == SubSeq(q, 1, Len(q) - 1)

\* The string of an absolute path: "/" for the root, else "/c1/c2/..."
RECURSIVE PathStr(_)
PathStr(comps) ==
    IF comps = <<>> THEN <<"/">>
    ELSE IF Len(comps) = 1 THEN <<"/">> \o comps[1]
    ELSE PathStr(Front(comps)) \o <<"/">> \o comps[Len(comps)]

\* os.path.abspath / normpath: ".." removes the component before it, textually
RECURSIVE NormPath(_, _)
NormPath(acc, rest) ==
    IF rest = <<>> THEN acc
    ELSE IF Head(rest) = DotDot
         THEN NormPath(IF acc = <<>> THEN <<>> ELSE Front(acc), Tail(rest))
         ELSE NormPath(Append(acc, Head(rest)), Tail(rest))

\* Path resolution as the file system does it (os.path.realpath, open):
\* each component is looked up in the directory reached so far, a symbolic
\* link is followed, and ".." is the parent of the directory reached
RECURSIVE ResolvePath(_, _, _)
ResolvePath(links, cur, rest) ==
    IF rest = <<>> THEN cur
    ELSE IF Head(rest) = DotDot
         THEN ResolvePath(links, IF cur = <<>> THEN <<>> ELSE Front(cur), Tail(rest))
         ELSE LET cand == Append(cur, Head(rest))
              IN  IF cand \in links
                  THEN ResolvePath(links, LinkTarget(cand), Tail(rest))
                  ELSE ResolvePath(links, cand, Tail(rest))

\* policy.realpath(path) == os.path.realpath(os.path.abspath(path)), path absolute
realpath(links, comps) == ResolvePath(links, <<>>, NormPath(<<>>, comps))

\* str.startswith
StartsWith(s, prefix) ==
    Len(prefix) <= Len(s) /\ SubSeq(s, 1, Len(prefix)) = prefix

\* The containment test without the separator after the root
InWorkspaceStr_NoSep(target_path, root) == StartsWith(target_path, root)

\* target_path.startswith(root + os.sep) or target_path == root
InWorkspaceStr(target_path, root) ==
    StartsWith(target_path, root \o <<"/">>) \/ target_path = root

PolicyError == [ok |-> FALSE, err |-> "PolicyError", comps |-> <<>>, path |-> <<>>]

\* ensure_in_workspace(workspace, target): the resolved path, or PolicyError
ensure_in_workspace(links, workspace, target) ==
    LET root == realpath(links, workspace.comps)
        target_path == IF target.abs THEN realpath(links, target.comps)
                       ELSE realpath(links, root \o target.comps)
    IN  IF InWorkspaceStr(PathStr(target_path), PathStr(root))
        THEN [ok |-> TRUE, err |-> "", comps |-> target_path, path |-> PathStr(target_path)]
        ELSE PolicyError

\* os.path.basename: the text after the last "/"
RECURSIVE Basename(_)
Basename(s) ==
    IF s = <<>> THEN <<>>
    ELSE IF s[Len(s)] = "/" THEN <<>>
    ELSE Append(Basename(Front(s)), s[Len(s)])

\* deny_if_sensitive raises PolicyError (TRUE) or returns (FALSE)
deny_if_sensitive(path) == Basename(path) \in SENSITIVE_NAMES

\* FileTool._safe_path
safe_path(links, path) ==
    LET target == ensure_in_workspace(links, Workspace, path)
    IN  IF ~target.ok THEN PolicyError
        ELSE IF deny_if_sensitive(target.path) THEN PolicyError
        ELSE target

Raised(cls) == [ok |-> FALSE, err |-> cls, comps |-> <<>>, path |-> <<>>]

Returned(ok) == [ok |-> ok, err |-> "", comps |-> <<>>, path |-> <<>>]

IsDir(comps) == comps \in RealDirs

\* The file that open(path) reaches
OpenTarget(links, comps) == ResolvePath(links, <<>>, comps)

\* policy.ensure_in_workspace called on its own
Confine ==
    /\ ft_op = "none"
    /\ ft_op' = "confine"
    /\ ft_res' = ensure_in_workspace(fs_links, Workspace, ft_path)
    /\ UNCHANGED <<fs_links, fs_files, ft_path, ft_opened, ft_written>>
    /\ UNCHANGED nonFileVars

\* FileTool.read
FileRead ==
    /\ ft_op = "none"
    /\ ft_op' = "read"
    /\ LET target == safe_path(fs_links, ft_path)
       IN  IF ~target.ok
           THEN ft_res' = target /\ ft_opened' = {}
           ELSE IF target.comps \notin fs_files /\ ~IsDir(target.comps)
           THEN ft_res' = Returned(FALSE) /\ ft_opened' = {}
           ELSE IF IsDir(target.comps)
           THEN ft_res' = Raised("IsADirectoryError") /\ ft_opened' = {}
           ELSE ft_res' = Returned(TRUE) /\ ft_opened' = {target.comps}
    /\ UNCHANGED <<fs_links, fs_files, ft_path, ft_written>>
    /\ UNCHANGED nonFileVars

\* FileTool.write
FileWrite(dry_run) ==
    /\ ft_op = "none"
    /\ ft_op' = "write"
    /\ LET target == safe_path(fs_links, ft_path)
           under_file == \E k \in 1..(Len(target.comps) - 1) :
                             SubSeq(target.comps, 1, k) \in fs_files
       IN  IF ~target.ok
           THEN ft_res' = target /\ ft_opened' = {} /\ UNCHANGED <<fs_files, ft_written>>
           ELSE IF IsDir(target.comps)
           THEN /\ ft_res' = Raised("IsADirectoryError")
                /\ ft_opened' = {}
                /\ UNCHANGED <<fs_files, ft_written>>
           ELSE IF dry_run
           THEN /\ ft_res' = Returned(TRUE)
                /\ ft_opened' = {target.comps} \cap fs_files
                /\ UNCHANGED <<fs_files, ft_written>>
           ELSE IF under_file
           THEN /\ ft_res' = Raised("NotADirectoryError")
                /\ ft_opened' = {target.comps} \cap fs_files
                /\ UNCHANGED <<fs_files, ft_written>>
           ELSE /\ ft_res' = Returned(TRUE)
                /\ ft_opened' = {target.comps}
                /\ fs_files' = fs_files \cup {target.comps}
                /\ ft_written' = {target.comps}
    /\ UNCHANGED <<fs_links, ft_path>>
    /\ UNCHANGED nonFileVars

\* FileTool.patch with a non-empty unified_diff
FilePatch(dry_run) ==
    /\ ft_op = "none"
    /\ ft_op' = "patch"
    /\ LET target == safe_path(fs_links, ft_path)
       IN  IF ~target.ok
           THEN ft_res' = target /\ ft_opened' = {} /\ ft_written' = {}
           ELSE IF target.comps \notin fs_files /\ ~IsDir(target.comps)
           THEN ft_res' = Returned(FALSE) /\ ft_opened' = {} /\ ft_written' = {}
           ELSE IF IsDir(target.comps)
           THEN ft_res' = Raised("IsADirectoryError") /\ ft_opened' = {} /\ ft_written' = {}
           ELSE IF dry_run
           THEN ft_res' = Returned(TRUE) /\ ft_opened' = {target.comps} /\ ft_written' = {}
           ELSE \E applied \in BOOLEAN :
                    /\ ft_res' = Returned(applied)
                    /\ ft_opened' = {target.comps}
                    /\ ft_written' = IF applied THEN {target.comps} ELSE {}
    /\ UNCHANGED <<fs_links, fs_files, ft_path>>
    /\ UNCHANGED nonFileVars

\* The entries os.walk(root) reports as files: regular files and symbolic
\* links to non-directories, in root and in the directories below it
\* (symbolic links to directories are not descended into)
WalkFiles(links, root) ==
    { f \in fs_files \cup links :
        /\ Len(f) > Len(root)
        /\ SubSeq(f, 1, Len(root)) = root
        /\ Front(f) \in RealDirs
        /\ (f \in links => ~IsDir(LinkTarget(f))) }

\* FileTool.search with a pattern that matches no line: every file that
\* passes deny_if_sensitive is opened and read to its end
FileSearch ==
    /\ ft_op = "none"
    /\ ft_op' = "search"
    /\ LET root == safe_path(fs_links, ft_path)
       IN  IF ~root.ok
           THEN ft_res' = root /\ ft_opened' = {}
           ELSE /\ ft_res' = Returned(TRUE)
                /\ ft_opened' =
                      { OpenTarget(fs_links, f) :
                          f \in { g \in WalkFiles(fs_links, root.comps) :
                                    /\ ~deny_if_sensitive(PathStr(g))
                                    /\ OpenTarget(fs_links, g) \in fs_files } }
    /\ UNCHANGED <<fs_links, fs_files, ft_path, ft_written>>
    /\ UNCHANGED nonFileVars

FileInit ==
    /\ fs_links \in SUBSET LinkCandidates
    /\ fs_files = RealFiles
    /\ ft_path \in Paths
    /\ ft_op = "none"
    /\ ft_res = Returned(TRUE)
    /\ ft_opened = {}
    /\ ft_written = {}

FileNext ==
    \/ Confine
    \/ FileRead
    \/ \E dry_run \in BOOLEAN : FileWrite(dry_run)
    \/ \E dry_run \in BOOLEAN : FilePatch(dry_run)
    \/ FileSearch

-----------------------------------------------------------------------------
(* Claims about workspace confinement and sensitive files (SpecFiles)      *)

\* The target of the call as the file system reads it: relative paths start
\* at the workspace root
JoinedComps(path) == IF path.abs THEN path.comps ELSE Workspace.comps \o path.comps

\* q is p itself or lies below p, component by component
IsUnder(q, p) == Len(p) <= Len(q) /\ SubSeq(q, 1, Len(p)) = p

\* C7 as stated: ensure_in_workspace succeeds exactly when the canonical
\* form of p (symbolic links followed, ".." taken as the parent of the
\* directory reached) is the canonical root or lies under it, and then
\* returns that canonical path; otherwise it raises PolicyError.
C7_ConfineExactlyCanonical ==
    ft_op = "confine" =>
        LET root == ResolvePath(fs_links, <<>>, Workspace.comps)
            canon == ResolvePath(fs_links, <<>>, JoinedComps(ft_path))
        IN  /\ ft_res.ok <=> IsUnder(canon, root)
            /\ ft_res.ok => ft_res.path = PathStr(canon)
            /\ ~ft_res.ok => ft_res.err = "PolicyError"

\* C7 amended: ensure_in_workspace succeeds exactly when the path obtained
\* from p by first removing ".." components textually (os.path.abspath) and
\* then following symbolic links is the canonical root or lies under it, and
\* then returns that path; otherwise it raises PolicyError.  A sibling
\* directory whose name starts with the root's name is outside.
C7_ConfineNormalizedThenResolved ==
    ft_op = "confine" =>
        LET root == ResolvePath(fs_links, <<>>, Workspace.comps)
            canon == ResolvePath(fs_links, <<>>, NormPath(<<>>, JoinedComps(ft_path)))
        IN  /\ ft_res.ok <=> IsUnder(canon, root)
            /\ ft_res.ok => ft_res.comps = canon /\ ft_res.path = PathStr(canon)
            /\ ~ft_res.ok => ft_res.err = "PolicyError"

\* A path through a symbolic link of the workspace that leads outside it
\* has been refused
C7_Witness ==
    /\ ft_op = "confine"
    /\ <<N_ws, N_out>> \in fs_links
    /\ ft_path = [abs |-> FALSE, comps |-> <<N_out, N_a>>]
    /\ ft_res = PolicyError

IsSensitiveFile(f) == Basename(PathStr(f)) \in SENSITIVE_NAMES

\* C9 as stated: no FileTool operation (read, write, patch, search) opens or
\* writes a file whose basename is in SENSITIVE_NAMES, however the file is
\* reached; a read, write or patch whose path names such a file raises
\* PolicyError and leaves the file system unchanged.
C9_NoSensitiveFileOpened ==
    ft_op \in {"read", "write", "patch", "search"} =>
        /\ \A f \in ft_opened \cup ft_written : ~IsSensitiveFile(f)
        /\ (/\ ft_op # "search"
            /\ IsSensitiveFile(ResolvePath(fs_links, <<>>, JoinedComps(ft_path))))
               => ft_res.err = "PolicyError" /\ fs_files = RealFiles

-----------------------------------------------------------------------------
(* Planning: gsa.safety.risk, gsa.agent.planner, Orchestrator.plan.        *)
(* The user's text is a sequence of characters; a character outside ASCII  *)
(* is written by its code point.  Messages shown to the user are given in  *)
(* English.                                                                *)

\* RISK_MAP: tool -> <<level, reason>>
RISK_MAP ==
    [t \in {"git_status", "git_diff", "git_log", "git_branch_list",
            "git_remote_list", "git_show", "git_log_graph", "file_list",
            "file_read", "file_search", "index_status", "index_search",
            "repo_summarize", "organize_suggestions"}
        |-> <<"low", <<"r", "e", "a", "d", "-", "o", "n", "l", "y">>>>]
    @@ ("index_build" :>
          <<"low", <<"r", "e", "a", "d", "-", "o", "n", "l", "y", " ", "i", "n", "d", "e", "x", " ", "b", "u", "i", "l", "d">>>>)
    @@ ("git_init" :>
          <<"medium", <<"c", "r", "e", "a", "t", "e", "s", " ", ".", "g", "i", "t">>>>)
    @@ ("git_add" :>
          <<"medium", <<"c", "h", "a", "n", "g", "e", "s", " ", "t", "h", "e", " ", "i", "n", "d", "e", "x">>>>)
    @@ ("git_commit" :>
          <<"medium", <<"c", "r", "e", "a", "t", "e", "s", " ", "a", " ", "c", "o", "m", "m", "i", "t">>>>)
    @@ ("git_switch" :>
          <<"medium", <<"m", "a", "y", " ", "c", "h", "a", "n", "g", "e", " ", "w", "o", "r", "k", " ", "t", "r", "e", "e">>>>)
    @@ ("git_create_branch" :>
          <<"medium", <<"c", "r", "e", "a", "t", "e", "s", " ", "a", " ", "b", "r", "a", "n", "c", "h">>>>)
    @@ ("git_delete_branch" :>
          <<"high", <<"d", "e", "l", "e", "t", "e", "s", " ", "a", " ", "b", "r", "a", "n", "c", "h">>>>)
    @@ ("git_stash_push" :>
          <<"medium", <<"s", "a", "v", "e", "s", " ", "c", "h", "a", "n", "g", "e", "s">>>>)
    @@ ("git_stash_pop" :>
          <<"high", <<"p", "o", "p", " ", "m", "a", "y", " ", "c", "o", "n", "f", "l", "i", "c", "t">>>>)
    @@ ("git_merge" :>
          <<"high", <<"m", "e", "r", "g", "e", " ", "m", "a", "y", " ", "c", "o", "n", "f", "l", "i", "c", "t">>>>)
    @@ ("file_write" :>
          <<"high", <<"w", "r", "i", "t", "e", "s", " ", "a", " ", "f", "i", "l", "e">>>>)
    @@ ("file_patch" :>
          <<"high", <<"m", "o", "d", "i", "f", "i", "e", "s", " ", "a", " ", "f", "i", "l", "e">>>>)

\* bool(args.get(key)) for a key that holds a boolean
ArgFlag(args, key) == key \in DOMAIN args /\ args[key] = TRUE

\* No reason at all when the arguments carry a path
WritePathReason_Empty(path) == <<>>

\* The reason without the path
WritePathReason_NoPath(path) ==
    <<"w", "r", "i", "t", "e", "/", "m", "o", "d", "i", "f", "y", " ", "f", "i", "l", "e">>

\* The formatted reason: f"write/modify file {path}"
WritePathReason(path) ==
    <<"w", "r", "i", "t", "e", "/", "m", "o", "d", "i", "f", "y", " ", "f", "i", "l", "e", " ">> \o path

\* A default that rates an unknown tool low
UnknownRisk_Low == <<"low", <<"u", "n", "k", "n", "o", "w", "n", " ", "t", "o", "o", "l">>>>

\* The (level, reason) of a tool RISK_MAP has no entry for
UnknownRisk == <<"medium", <<"u", "n", "k", "n", "o", "w", "n", " ", "t", "o", "o", "l">>>>

\* Deleting a branch rated high only when forced
assess_risk_ForceDecides(tool, args) ==
    IF tool \notin DOMAIN RISK_MAP THEN UnknownRisk
    ELSE IF tool = "git_delete_branch"
    THEN IF ArgFlag(args, "force")
         THEN <<"high", <<"f", "o", "r", "c", "e", "-", "d", "e", "l", "e", "t", "e", "s", " ", "a", " ", "b", "r", "a", "n", "c", "h">>>>
         ELSE <<"medium", RISK_MAP[tool][2]>>
    ELSE IF tool = "git_switch" /\ ArgFlag(args, "create")
    THEN <<"medium", <<"c", "r", "e", "a", "t", "e", "s", " ", "a", "n", "d", " ", "s", "w", "i", "t", "c", "h", "e", "s">>>>
    ELSE IF tool \in {"file_write", "file_patch"}
            /\ "path" \in DOMAIN args /\ args["path"] # <<>>
    THEN <<"high", WritePathReason(args["path"])>>
    ELSE RISK_MAP[tool]

\* assess_risk(tool, args) -> <<level, reason>>
assess_risk(tool, args) ==
    IF tool \notin DOMAIN RISK_MAP
    THEN UnknownRisk
    ELSE IF tool = "git_delete_branch" /\ ArgFlag(args, "force")
    THEN <<"high", <<"f", "o", "r", "c", "e", "-", "d", "e", "l", "e", "t", "e", "s", " ", "a", " ", "b", "r", "a", "n", "c", "h">>>>
    ELSE IF tool = "git_switch" /\ ArgFlag(args, "create")
    THEN <<"medium", <<"c", "r", "e", "a", "t", "e", "s", " ", "a", "n", "d", " ", "s", "w", "i", "t", "c", "h", "e", "s">>>>
    ELSE IF tool \in {"file_write", "file_patch"}
            /\ "path" \in DOMAIN args /\ args["path"] # <<>>
    THEN <<"high", WritePathReason(args["path"])>>
    ELSE RISK_MAP[tool]

\* re.search of an alternation of literals
Search(alternatives, text) == \E a \in alternatives : StrIn(a, text)

\* The positions just after an occurrence of one of the needles in text
MatchEnds(needles, text) ==
    { j \in 1..(Len(text) + 1) :
        \E n \in needles : j > Len(n) /\ SubSeq(text, j - Len(n), j - 1) = n }

\* The text after the leftmost occurrence of a needle (all needles have the
\* same length); <<>> when there is none
RestAfter(needles, text) ==
    IF MatchEnds(needles, text) = {} THEN <<>>
    ELSE SubSeq(text,
                CHOOSE e \in MatchEnds(needles, text) :
                    \A g \in MatchEnds(needles, text) : e <= g,
                Len(text))

\* \s* at the start of s
SkipSpaces(s) ==
    IF \A i \in 1..Len(s) : s[i] = " " THEN <<>>
    ELSE SubSeq(s, CHOOSE i \in 1..Len(s) :
                      s[i] # " " /\ \A j \in 1..(i - 1) : s[j] = " ", Len(s))

\* \S+ at the start of s
FirstToken(s) ==
    IF \A i \in 1..Len(s) : s[i] # " " THEN s
    ELSE SubSeq(s, 1, (CHOOSE i \in 1..Len(s) :
                          s[i] = " " /\ \A j \in 1..(i - 1) : s[j] # " ") - 1)

Colons == {":", "U+FF1A"}

\* group(1) of  keyword[:(fullwidth colon)]?\s*(\S+)  searched in a stripped
\* text; <<>> when the pattern does not match
CaptureName(keyword, text) ==
    LET rest == RestAfter({keyword}, text)
    IN  IF rest = <<>> THEN <<>>
        ELSE IF Head(rest) \in Colons
        THEN LET r2 == SkipSpaces(Tail(rest))
             IN  IF r2 = <<>> THEN <<Head(rest)>> ELSE FirstToken(r2)
        ELSE FirstToken(SkipSpaces(rest))

\* group(1).strip() of  commit[:(fullwidth colon)]\s*(.+)  searched in a
\* stripped text; <<>> when the pattern does not match
CaptureMessage(text) ==
    SkipSpaces(RestAfter({ <<"U+63D0", "U+4EA4", ":">>, <<"U+63D0", "U+4EA4", "U+FF1A">> }, text))

\* add_step: the step with the level and reason assess_risk gives it
AddStep(tool, args) ==
    <<Step(tool, args, assess_risk(tool, args)[1], assess_risk(tool, args)[2], TRUE)>>

\* RulePlanner.plan(user_input), user_input already stripped
RulePlanner_plan(text) ==
    LET blocked == { <<"r", "e", "s", "e", "t", " ", "-", "-", "h", "a", "r", "d">>, <<"c", "l", "e", "a", "n", " ", "-", "f", "d">>, <<"p", "u", "s", "h", " ", "-", "-", "f", "o", "r", "c", "e">>, <<"p", "u", "s", "h", " ", "-", "f">> }
        wants_log == Search({ <<"U+65E5", "U+5FD7">>, <<"l", "o", "g">>, <<"U+5386", "U+53F2">>, <<"U+6700", "U+8FD1", "U+63D0", "U+4EA4">>, <<"U+63D0", "U+4EA4", "U+5386", "U+53F2">>, <<"U+63D0", "U+4EA4", "U+8BB0", "U+5F55">> }, text)
        commit_trigger == Search({ <<"U+63D0", "U+4EA4">>, <<"c", "o", "m", "m", "i", "t">> }, text)
        commit_intent ==
            /\ commit_trigger
            /\ ~wants_log
            /\ ~Search({ <<"U+63D0", "U+4EA4", "U+5386", "U+53F2">>, <<"U+63D0", "U+4EA4", "U+65E5", "U+5FD7">>, <<"U+63D0", "U+4EA4", "U+8BB0", "U+5F55">>, <<"U+5386", "U+53F2", "U+63D0", "U+4EA4">>, <<"U+6700", "U+8FD1", "U+63D0", "U+4EA4">> }, text)
        msg == CaptureMessage(text)
        wants_add == Search({ <<"U+6682", "U+5B58">>, <<"a", "d", "d">> }, text)
        add_all == Search({ <<"U+5168", "U+90E8">>, <<"U+6240", "U+6709">> }, text)
        wants_switch == Search({ <<"U+5207", "U+6362", "U+5206", "U+652F">>, <<"c", "h", "e", "c", "k", "o", "u", "t">>, <<"s", "w", "i", "t", "c", "h">> }, text)
        switch_to == CaptureName(<<"U+5207", "U+6362", "U+5206", "U+652F">>, text)
        wants_create == Search({ <<"U+521B", "U+5EFA", "U+5206", "U+652F">>, <<"U+65B0", "U+5EFA", "U+5206", "U+652F">> }, text)
        create_name == CaptureName(<<"U+5206", "U+652F">>, text)
        wants_delete == StrIn(<<"U+5220", "U+9664", "U+5206", "U+652F">>, text)
        delete_name == CaptureName(<<"U+5220", "U+9664", "U+5206", "U+652F">>, text)
        wants_index == Search({ <<"U+7D22", "U+5F15">>, <<"U+641C", "U+7D22">>, <<"U+603B", "U+7ED3">>, <<"U+6574", "U+7406", "U+5EFA", "U+8BAE">> }, text)
        steps ==
            (IF Search({ <<"U+72B6", "U+6001">>, <<"s", "t", "a", "t", "u", "s">> }, text)
             THEN AddStep("git_status", EmptyArgs) ELSE <<>>)
            \o (IF wants_log THEN AddStep("git_log", ("n" :> 10)) ELSE <<>>)
            \o (IF Search({ <<"U+5DEE", "U+5F02">>, <<"d", "i", "f", "f">> }, text)
                THEN AddStep("git_diff", ("staged" :> FALSE)) ELSE <<>>)
            \o (IF /\ Search({ <<"U+5206", "U+652F", "U+5217", "U+8868">>, <<"U+5206", "U+652F">> }, text)
                   /\ ~StrIn(<<"U+5207", "U+6362">>, text)
                THEN AddStep("git_branch_list", EmptyArgs) ELSE <<>>)
            \* the remaining alternatives of this pattern need a backslash
            \* in the text (the pattern is written with "\\s")
            \o (IF Search({ <<"U+521D", "U+59CB", "U+5316", "U+4ED3", "U+5E93">>, <<"U+521B", "U+5EFA", "U+4ED3", "U+5E93">>, <<"U+5EFA", "U+7ACB", "U+4ED3", "U+5E93">> }, text)
                THEN AddStep("git_init", EmptyArgs) ELSE <<>>)
            \o (IF commit_intent /\ msg # <<>>
                THEN AddStep("git_commit", ("message" :> msg)) ELSE <<>>)
            \o (IF wants_add /\ add_all
                THEN AddStep("git_add", ("paths" :> <<<<".">>>>) @@ ("allow_all" :> TRUE))
                ELSE <<>>)
            \o (IF wants_switch /\ switch_to # <<>>
                THEN AddStep("git_switch", ("branch" :> switch_to) @@ ("create" :> FALSE))
                ELSE <<>>)
            \o (IF wants_create /\ create_name # <<>>
                THEN AddStep("git_create_branch",
                             ("name" :> create_name) @@ ("from_ref" :> <<"H", "E", "A", "D">>))
                ELSE <<>>)
            \o (IF wants_delete /\ delete_name # <<>>
                THEN AddStep("git_delete_branch",
                             ("name" :> delete_name) @@ ("force" :> FALSE))
                ELSE <<>>)
            \o (IF wants_index
                THEN AddStep("index_status", EmptyArgs)
                     \o (IF Search({ <<"U+6784", "U+5EFA">>, <<"U+5EFA", "U+7ACB">> }, text)
                         THEN AddStep("index_build",
                                      ("include_globs" :> <<<<"*", "*", "/", "*">>>>)
                                      @@ ("exclude_globs" :> <<>>))
                         ELSE <<>>)
                     \o (IF StrIn(<<"U+641C", "U+7D22">>, text)
                         THEN AddStep("index_search",
                                      ("query" :> <<"U+9879", "U+76EE", "U+6982", "U+89C8">>) @@ ("top_k" :> 5))
                         ELSE <<>>)
                     \o (IF Search({ <<"U+603B", "U+7ED3">>, <<"U+6982", "U+89C8">> }, text)
                         THEN AddStep("repo_summarize", EmptyArgs) ELSE <<>>)
                     \o (IF StrIn(<<"U+6574", "U+7406", "U+5EFA", "U+8BAE">>, text)
                         THEN AddStep("organize_suggestions", EmptyArgs) ELSE <<>>)
                ELSE <<>>)
        questions ==
            (IF commit_intent /\ msg = <<>> THEN <<"what is the commit message?">> ELSE <<>>)
            \o (IF wants_add /\ ~add_all THEN <<"which files to stage?">> ELSE <<>>)
            \o (IF wants_switch /\ switch_to = <<>> THEN <<"which branch to switch to?">> ELSE <<>>)
            \o (IF wants_create /\ create_name = <<>> THEN <<"what is the new branch name?">> ELSE <<>>)
            \o (IF wants_delete /\ delete_name = <<>> THEN <<"which branch to delete?">> ELSE <<>>)
    IN  IF Search(blocked, text)
        THEN Plan("parse the user's instruction",
                  <<"dangerous instruction detected, forbidden by policy">>, TRUE, <<>>)
        ELSE Plan("parse the user's instruction",
                  IF steps = <<>> /\ questions = <<>>
                  THEN <<"please say which git or file operation you want">>
                  ELSE questions,
                  \E k \in 1..Len(steps) : steps[k].safety_level \in {"medium", "high"},
                  steps)

\* PlanResult; plan is <<>> for None, <<p>> for a plan p
PlanResult(p, errors) == [plan |-> p, errors |-> errors]

\* A fallback that clears the questions of every plan
FallbackPlan_ClearAlways(text) == [RulePlanner_plan(text) EXCEPT !.questions = <<>>]

\* The fallback of Planner.plan when the client has no key or timed out
FallbackPlan(text) ==
    LET p == RulePlanner_plan(text)
    IN  IF p.steps # <<>> /\ \A k \in 1..Len(p.steps) : p.steps[k].safety_level = "low"
        THEN [p EXCEPT !.questions = <<>>]
        ELSE p

\* What the call of the text-generation client can come to
LLMOutcomes == {"key_missing", "timeout", "failed", "unparsable", "plan"}

\* The call of the client as Planner.plan sees it: an exception of class
\* `name` with str() `msg`, a text that is no valid plan, or a valid plan
LLMReply(kind, name, msg) == [kind |-> kind, name |-> name, msg |-> msg]

\* The client was not called
NoReply == LLMReply("none", "", <<>>)

\* Exceptions of client.chat_text: no key; the SDK's timeout and the
\* built-in one, with and without a message; a connection error; an error
\* status whose message speaks of a timeout; a gateway error
LLMExceptions ==
    { LLMReply("raised", "LLMKeyMissing", <<"n", "o", " ", "k", "e", "y">>),
      LLMReply("raised", "APITimeoutError", <<"R", "e", "q", "u", "e", "s", "t", " ", "t", "i", "m", "e", "d", " ", "o", "u", "t", ".">>),
      LLMReply("raised", "TimeoutError", <<>>),
      LLMReply("raised", "APIConnectionError", <<"C", "o", "n", "n", "e", "c", "t", "i", "o", "n", " ", "e", "r", "r", "o", "r", ".">>),
      LLMReply("raised", "APIStatusError", <<"r", "e", "a", "d", " ", "t", "i", "m", "e", "o", "u", "t">>),
      LLMReply("raised", "APIStatusError", <<"b", "a", "d", " ", "g", "a", "t", "e", "w", "a", "y">>),
      LLMReply("raised", "APIStatusError", <<"U+8BF7", "U+6C42", "U+8D85", "U+65F6">>) }

\* The timeout test without the class names
IsTimeout_MessageOnly(name, msg) ==
    \/ StrIn(<<"t", "i", "m", "e", "d", " ", "o", "u", "t">>, msg)
    \/ StrIn(<<"t", "i", "m", "e", "o", "u", "t">>, msg)
    \/ StrIn(<<"U+8D85", "U+65F6">>, msg)

\* name in {"APITimeoutError", "TimeoutError"} or "timed out" in msg or
\* "timeout" in msg or the Chinese word for timeout in msg
IsTimeout(name, msg) ==
    \/ name \in {"APITimeoutError", "TimeoutError"}
    \/ StrIn(<<"t", "i", "m", "e", "d", " ", "o", "u", "t">>, msg)
    \/ StrIn(<<"t", "i", "m", "e", "o", "u", "t">>, msg)
    \/ StrIn(<<"U+8D85", "U+65F6">>, msg)

\* The branch of Planner.plan a reply leads to
Classify(reply) ==
    IF reply.kind = "plan" THEN "plan"
    ELSE IF reply.kind = "text" THEN "unparsable"
    ELSE IF reply.name = "LLMKeyMissing" THEN "key_missing"
    ELSE IF IsTimeout(reply.name, reply.msg) THEN "timeout"
    ELSE "failed"

\* Steps as the text-generation planner can write them in its JSON answer:
\* Plan.model_validate takes any of the three levels and any reason string
LLMStepPool ==
    { Step("git_status", EmptyArgs, "low", <<"r", "e", "a", "d", "-", "o", "n", "l", "y">>, TRUE),
      Step("git_status", EmptyArgs, "low", <<>>, TRUE),
      Step("git_commit", ("message" :> <<"f", "i", "x">>), "low", <<"a", " ", "c", "o", "m", "m", "i", "t">>, FALSE),
      Step("git_delete_branch", ("name" :> <<"o", "l", "d">>) @@ ("force" :> TRUE),
           "high", <<"d", "e", "l", "e", "t", "e", "s", " ", "a", " ", "b", "r", "a", "n", "c", "h">>, TRUE),
      Step("file_write", ("path" :> <<"a", ".", "t", "x", "t">>), "high",
           <<"w", "r", "i", "t", "e", "/", "m", "o", "d", "i", "f", "y", " ", "f", "i", "l", "e", " ", "a", ".", "t", "x", "t">>, TRUE) }

LLMPlans ==
    { Plan("llm", <<>>, n, st) : n \in BOOLEAN, st \in SeqsUpTo(LLMStepPool, MaxLLMSteps) }

\* Planner.plan(user_input, use_llm)
Planner_plan(text, use_llm, llm, llm_plan) ==
    IF ~use_llm THEN PlanResult(<<RulePlanner_plan(text)>>, <<>>)
    ELSE IF llm = "key_missing"
    THEN PlanResult(<<FallbackPlan(text)>>, <<Err("llm_key_missing", "")>>)
    ELSE IF llm = "timeout"
    THEN PlanResult(<<FallbackPlan(text)>>, <<Err("llm_timeout", "")>>)
    ELSE IF llm = "failed"
    THEN PlanResult(<<>>, <<Err("llm_failed", "")>>)
    ELSE IF llm = "unparsable"
    THEN PlanResult(<<RulePlanner_plan(text)>>, <<Err("plan_parse_failed", "")>>)
    ELSE PlanResult(<<llm_plan>>, <<>>)

\* memory.session.recent_branch after the loop over the plan's steps
RECURSIVE RecentBranch(_, _)
RecentBranch(steps, recent) ==
    IF steps = <<>> THEN recent
    ELSE LET s == Head(steps)
             branch == IF "branch" \in DOMAIN s.args THEN s.args["branch"]
                       ELSE IF "name" \in DOMAIN s.args THEN s.args["name"]
                       ELSE <<>>
         IN  IF /\ s.tool \in {"git_switch", "git_create_branch", "git_delete_branch"}
                /\ branch # <<>>
             THEN RecentBranch(Tail(steps), branch)
             ELSE RecentBranch(Tail(steps), recent)

\* A plan() that tries every low-risk step out while planning
PlanRequests_TryLowSteps(p) ==
    <<"tools/list">>
        \o [k \in 1..Cardinality({j \in 1..Len(p.steps) : p.steps[j].safety_level = "low"})
              |-> "tools/call"]

\* The requests Orchestrator.plan sends for a plan: self.mcp.list_tools()
PlanRequests(p) == <<"tools/list">>

\* Orchestrator.plan(user_input); reply is what the client call comes to
\* (not called when use_llm is false) and llm_plan the plan it holds
OrchestratorPlan(reply, llm_plan) ==
    /\ ~pl_done
    /\ pl_done' = TRUE
    /\ pl_llm' = IF pl_use_llm THEN reply ELSE NoReply
    /\ \E plan_result \in {Planner_plan(pl_text, pl_use_llm, Classify(reply), llm_plan)} :
           IF plan_result.plan # <<>>
           THEN /\ pl_recent_branch' = RecentBranch(plan_result.plan[1].steps, pl_recent_branch)
                /\ pl_sent' = PlanRequests(plan_result.plan[1])
                /\ pl_result' = PlanResult(plan_result.plan,
                                     plan_result.errors
                                     \o validate_plan(plan_result.plan[1], RegisteredTools))
           ELSE /\ pl_result' = plan_result
                /\ UNCHANGED <<pl_recent_branch, pl_sent>>
    /\ UNCHANGED <<pl_text, pl_use_llm>>
    /\ UNCHANGED nonPlanVars

\* Words a user's text is made of
Words ==
    { <<"s", "t", "a", "t", "u", "s">>, <<"l", "o", "g">>, <<"U+63D0", "U+4EA4">>, <<"U+63D0", "U+4EA4", ":">>, <<"f", "i", "x">>, <<"U+5220", "U+9664", "U+5206", "U+652F">>, <<"o", "l", "d">>, <<"r", "e", "s", "e", "t">>, <<"-", "-", "h", "a", "r", "d">>, <<"U+6682", "U+5B58", "U+5168", "U+90E8">>, <<"U+5207", "U+6362", "U+5206", "U+652F", ":", "d", "e", "v">>, <<"U+641C", "U+7D22">> }

\* user_input.strip(): words separated by single spaces
Texts == { JoinSpace(ws) : ws \in SeqsUpTo(Words, MaxWords) }

PlanInit ==
    /\ pl_text \in Texts
    /\ pl_use_llm \in BOOLEAN
    /\ pl_result = PlanResult(<<>>, <<>>)
    /\ pl_recent_branch = <<>>
    /\ pl_done = FALSE
    /\ pl_llm = NoReply
    /\ pl_sent = <<>>

\* With use_llm false the client is not called; llm_plan is read only when
\* the client's answer parses as a plan
PlanNext ==
    \/ ~pl_use_llm /\ OrchestratorPlan(NoReply, Plan("llm", <<>>, FALSE, <<>>))
    \/ pl_use_llm /\ \E reply \in LLMExceptions \cup {LLMReply("text", "", <<>>)} :
                        OrchestratorPlan(reply, Plan("llm", <<>>, FALSE, <<>>))
    \/ pl_use_llm /\ \E llm_plan \in LLMPlans :
                        OrchestratorPlan(LLMReply("plan", "", <<>>), llm_plan)

-----------------------------------------------------------------------------
(* Claims about planning (SpecPlan)                                        *)

\* C6: every step of a plan returned by Orchestrator.plan carries the level
\* and reason that assess_risk gives for its tool and arguments, and
\* neither of them is empty, whichever planner produced the plan.
C6_StepsCarryAssessedRisk ==
    (pl_done /\ pl_result.plan # <<>>) =>
        \A k \in 1..Len(pl_result.plan[1].steps) :
            LET s == pl_result.plan[1].steps[k]
            IN  /\ <<s.safety_level, s.safety_reason>> = assess_risk(s.tool, s.args)
                /\ s.safety_level # ""
                /\ s.safety_reason # <<>>

\* C22: Planner.plan returns a PlanResult for every reply of the client;
\* when the client raised for a missing key or a timeout, the result holds
\* the rule planner's steps for the text and starts its errors with the
\* diagnostic; the plan is null only when the client raised something else.
C22_FallbackOnKeyOrTimeout ==
    pl_done =>
        /\ (pl_llm.kind = "raised"
               /\ pl_llm.name \in {"LLMKeyMissing", "APITimeoutError", "TimeoutError"}) =>
              /\ pl_result.plan # <<>>
              /\ pl_result.plan[1].steps = RulePlanner_plan(pl_text).steps
              /\ pl_result.errors # <<>>
              /\ pl_result.errors[1].kind =
                    (IF pl_llm.name = "LLMKeyMissing" THEN "llm_key_missing" ELSE "llm_timeout")
        /\ pl_result.plan = <<>> =>
              /\ pl_llm.kind = "raised"
              /\ pl_llm.name \notin {"LLMKeyMissing", "APITimeoutError", "TimeoutError"}

\* The client raised TimeoutError with an empty message and the result
\* holds the rule planner's steps
C22_Witness ==
    /\ pl_done
    /\ pl_llm = LLMReply("raised", "TimeoutError", <<>>)
    /\ pl_result.plan # <<>>
    /\ pl_result.plan[1].steps # <<>>

\* A plan has a step or a question
NotSilentlyEmpty(p) == p.steps # <<>> \/ p.questions # <<>>

\* C23: the plan RulePlanner.plan makes of the text has a step or a
\* question, and so has every plan Planner.plan returns without the
\* client's plan: rule planner alone, fallback after a missing key or a
\* timeout (questions cleared or not), fallback after an unparsable answer.
C23_PlanNeverSilentlyEmpty ==
    /\ (pl_done /\ ~pl_use_llm) =>
          pl_result.plan # <<>> /\ NotSilentlyEmpty(pl_result.plan[1])
    /\ (pl_done /\ pl_llm.kind # "plan" /\ pl_result.plan # <<>>) =>
          NotSilentlyEmpty(pl_result.plan[1])

\* After a missing key the fallback cleared the question of an all-low
\* plan, and the plan still has its step
C23_Witness ==
    /\ pl_done
    /\ pl_llm.name = "LLMKeyMissing"
    /\ RulePlanner_plan(pl_text).questions # <<>>
    /\ pl_result.plan # <<>>
    /\ pl_result.plan[1].questions = <<>>
    /\ pl_result.plan[1].steps # <<>>

\* C24: Orchestrator.plan sends the worker tools/list and nothing else,
\* whatever the text and whatever the planner came to: no tools/call goes
\* out before the PlanResult is returned.
C24_PlanSendsNoToolsCall ==
    /\ \A k \in 1..Len(pl_sent) : pl_sent[k] = "tools/list"
    /\ pl_done => (pl_sent = <<"tools/list">> <=> pl_result.plan # <<>>)
    /\ ~pl_done => pl_sent = <<>>

\* plan() returned a plan with a low-risk step and a medium-risk one, having
\* sent tools/list alone
C24_Witness ==
    /\ pl_done
    /\ pl_result.plan # <<>>
    /\ \E k \in 1..Len(pl_result.plan[1].steps) : pl_result.plan[1].steps[k].safety_level = "low"
    /\ \E k \in 1..Len(pl_result.plan[1].steps) : pl_result.plan[1].steps[k].safety_level # "low"
    /\ pl_sent = <<"tools/list">>

-----------------------------------------------------------------------------
(* MCPClient._send against a worker whose output carries other lines       *)

\* One call, and two calls of which the second is a write
ClientPlans ==
    { Plan("i", <<>>, TRUE, <<Step("git_status", EmptyArgs, "low", <<"r", "o">>, TRUE)>>),
      Plan("i", <<>>, TRUE, <<Step("git_status", EmptyArgs, "low", <<"r", "o">>, TRUE),
                              Step("git_commit", ("message" :> <<"m">>), "medium", <<"c">>, TRUE)>>) }

\* Lines on the worker's stdout that answer no outstanding request: responses
\* with the id before or after `id`, text that is not JSON, JSON that is
\* not an object
StrayLines(id) ==
    { ResultLine(i, [ok |-> TRUE, dry_run |-> TRUE]) : i \in {id - 1, id + 1} }
        \cup { ErrorLine(i, "stray") : i \in {id - 1, id + 1} }
        \cup { GarbageLine, NonObjectLine }

\* The worker process writes a line of its own to stdout, here only when
\* the client has read every line written before it
WorkerPrint ==
    /\ alive
    /\ stdout = <<>>
    /\ \E line \in StrayLines(mcp_id) : stdout' = Append(stdout, line)
    /\ UNCHANGED <<plan, pc, idx, confirmed, results, outcome, ret, runs, mcp_id, stdin,
                   alive, sent, skipped, gated>>
    /\ UNCHANGED nonExecVars

ClientInit ==
    /\ plan \in ClientPlans
    /\ pc = "idle"
    /\ idx = 0
    /\ confirmed = FALSE
    /\ results = <<>>
    /\ outcome = "none"
    /\ ret = NoRet
    /\ runs = 0
    /\ mcp_id = 0
    /\ stdin = <<>>
    /\ stdout = <<>>
    /\ alive = TRUE
    /\ sent = <<>>
    /\ skipped = {}
    /\ gated = <<>>

ClientNext ==
    \/ \E c \in BOOLEAN : Execute(c)
    \/ ClientRead
    \/ ClientEOF
    \/ WorkerServe
    \/ WorkerExit
    \/ WorkerPrint

-----------------------------------------------------------------------------
(* Claims about MCPClient._send (SpecClient)                               *)

\* _send takes the line at the head of stdout
ReadsLine == pc = "wait" /\ stdout # <<>> /\ stdout' = Tail(stdout)

IsResponse(line) == line.kind \in {"result", "error"}

\* C16: request ids go up by one from 1; a response line whose id is not the
\* outstanding id is passed over and changes nothing of the client's state
\* (the request stays outstanding); the entry recorded for the outstanding
\* request is taken from a response line with the outstanding id, or comes
\* from the channel closing or from output that is no response at all.
C16_IdsIncreaseOnlyMatchingLineCounts ==
    [][ /\ mcp_id' \in {mcp_id, mcp_id + 1}
        /\ \A k \in 1..Len(sent) : sent[k].id >= 1
        /\ \A k \in 2..Len(sent) : sent[k].id = sent[k - 1].id + 1
        /\ Len(stdin') > Len(stdin) =>
              /\ mcp_id' = mcp_id + 1
              /\ stdin'[Len(stdin')].id = mcp_id'
              /\ \A k \in 1..Len(stdin) : stdin[k].id < mcp_id'
        /\ (ReadsLine /\ IsResponse(Head(stdout)) /\ Head(stdout).id # mcp_id) =>
              UNCHANGED <<pc, idx, results, outcome, ret, mcp_id, stdin, sent>>
        /\ (pc = "wait" /\ results' # results) =>
              LET entry == results'[Len(results) + 1]
              IN  /\ SubSeq(results', 1, Len(results)) = results
                  /\ IF entry.ok
                     THEN /\ ReadsLine
                          /\ Head(stdout).kind = "result"
                          /\ Head(stdout).id = mcp_id
                          /\ entry.result = Head(stdout).result
                     ELSE \/ /\ ReadsLine
                             /\ Head(stdout).kind = "error"
                             /\ Head(stdout).id = mcp_id
                             /\ entry.error = Head(stdout).message
                          \/ ReadsLine /\ Head(stdout).kind = "nonobject"
                          \/ stdout = <<>> /\ ~alive /\ entry.error = "connection closed"
      ]_vars

\* The second _send passed over a response with another id and then took
\* the response to request 2
C16_Witness ==
    /\ outcome = "returned"
    /\ runs = 1
    /\ Len(plan.steps) = 2
    /\ mcp_id = 2
    /\ skipped = {"other_id"}
    /\ Len(results) = 2
    /\ results[2].ok

\* C17: a line that is not JSON, read while a request is outstanding, makes
\* that request fail: a failure entry is recorded for it.
C17_UnparseableLineFailsRequest ==
    [][ (ReadsLine /\ Head(stdout).kind = "garbage") =>
            /\ Len(results') = Len(results) + 1
            /\ ~results'[Len(results')].ok
      ]_vars

-----------------------------------------------------------------------------
(* The worker on its own: gsa.mcp.server.main over a given input           *)

MaxLines == 2

\* Request objects: the four methods and an unknown one; a registered tool,
\* an unregistered one, one whose name holds a lone surrogate; a known and
\* an unknown resource
ObjectRequests ==
    { Request(i, m, Params("", EmptyArgs, "")) :
        i \in {1, 2}, m \in {"tools/list", "resources/list", "shutdown"} }
      \cup { Request(i, "tools/call", Params(n, EmptyArgs, "")) :
                i \in {1, 2}, n \in {"git_status", "git_rebase", LoneSurrogate} }
      \cup { Request(i, "resources/read", Params("", EmptyArgs, u)) :
                i \in {1, 2}, u \in {"logs/recent", "nope"} }

InputLines == ObjectRequests \cup {BlankRequest, GarbageRequest, NonObjectRequest}

ServerInit ==
    /\ plan = Plan("i", <<>>, FALSE, <<>>)
    /\ pc = "idle"
    /\ idx = 0
    /\ confirmed = FALSE
    /\ results = <<>>
    /\ outcome = "none"
    /\ ret = NoRet
    /\ runs = 0
    /\ mcp_id = 0
    /\ stdin \in SeqsUpTo(InputLines, MaxLines)
    /\ stdout = <<>>
    /\ alive = TRUE
    /\ sent = <<>>
    /\ skipped = {}
    /\ gated = <<>>

ServerNext == WorkerServe

-----------------------------------------------------------------------------
(* Claims about the worker (SpecServer)                                    *)

\* The worker takes a line that holds a JSON object
ServesObject == alive /\ stdin # <<>> /\ Head(stdin).kind = "object" /\ stdin' # stdin

\* C18: for every request that is a JSON object the worker writes one
\* response carrying the request's id and stays up with the later requests
\* still to serve; the response is an error for a method outside the four,
\* for an unregistered tool, and for an unknown resource.
C18_ObjectRequestNeverCrashes ==
    [][ ServesObject =>
          LET req == Head(stdin)
          IN  /\ alive'
              /\ stdin' = Tail(stdin)
              /\ Len(stdout') = Len(stdout) + 1
              /\ stdout'[Len(stdout')].id = req.id
              /\ req.method \notin {"tools/list", "tools/call", "resources/list",
                                    "resources/read"} =>
                    stdout'[Len(stdout')].kind = "error"
              /\ (req.method = "tools/call" /\ req.params.name \notin RegisteredTools) =>
                    stdout'[Len(stdout')].kind = "error"
      ]_vars

-----------------------------------------------------------------------------
(* assess_risk called on its own: gsa.safety.risk                          *)

\* Tool names RISK_MAP has no entry for
UnknownTools == {"git_rebase", "git_push", "shell", ""}

RiskTools == DOMAIN RISK_MAP \cup UnknownTools

\* Argument maps: each of force, create and path absent or present
RiskArgs ==
    { f @@ c @@ pth :
        f \in {EmptyArgs, "force" :> TRUE, "force" :> FALSE},
        c \in {EmptyArgs, "create" :> TRUE, "create" :> FALSE},
        pth \in {EmptyArgs, "path" :> <<>>, "path" :> <<"a">>, "path" :> <<"s", "r", "c", "/", "x", ".", "p", "y">>} }

NoRisk == <<"", <<>>>>

RiskInit ==
    /\ rk_tool \in RiskTools
    /\ rk_args \in RiskArgs
    /\ rk_res = NoRisk
    /\ rk_done = FALSE

\* level, reason = assess_risk(tool, args)
Assess ==
    /\ ~rk_done
    /\ rk_res' = assess_risk(rk_tool, rk_args)
    /\ rk_done' = TRUE
    /\ UNCHANGED <<rk_tool, rk_args>>
    /\ UNCHANGED nonRiskVars

RiskNext == Assess

-----------------------------------------------------------------------------
(* Claims about assess_risk (SpecRisk)                                     *)

\* C13: for a tool name that is not a key of RISK_MAP, whatever the
\* arguments, assess_risk returns medium, never low, with the
\* unknown-tool reason.
C13_UnknownToolIsMedium ==
    (rk_done /\ rk_tool \notin DOMAIN RISK_MAP) =>
        /\ rk_res[1] = "medium"
        /\ rk_res[1] # "low"
        /\ rk_res[2] = <<"u", "n", "k", "n", "o", "w", "n", " ", "t", "o", "o", "l">>

\* An unknown tool called with force, create and path has been rated
C13_Witness ==
    /\ rk_done
    /\ rk_tool = "git_push"
    /\ DOMAIN rk_args = {"force", "create", "path"}
    /\ rk_args["force"]
    /\ rk_res[1] = "medium"

\* C14: file_write and file_patch are rated high whatever the arguments,
\* and when the arguments carry a path the reason contains it.
C14_FileWritesAreHigh ==
    (rk_done /\ rk_tool \in {"file_write", "file_patch"}) =>
        /\ rk_res[1] = "high"
        /\ "path" \in DOMAIN rk_args => StrIn(rk_args["path"], rk_res[2])

\* file_patch on src/x.py has been rated, and the reason ends with the path
C14_Witness ==
    /\ rk_done
    /\ rk_tool = "file_patch"
    /\ "path" \in DOMAIN rk_args
    /\ rk_args["path"] = <<"s", "r", "c", "/", "x", ".", "p", "y">>
    /\ rk_res[1] = "high"
    /\ SubSeq(rk_res[2], Len(rk_res[2]) - 7, Len(rk_res[2])) = rk_args["path"]

\* C15: git_delete_branch is rated high whatever the arguments: force true,
\* force false, force absent.
C15_DeleteBranchIsHigh ==
    (rk_done /\ rk_tool = "git_delete_branch") => rk_res[1] = "high"

\* git_delete_branch with force=false has been rated
C15_Witness ==
    /\ rk_done
    /\ rk_tool = "git_delete_branch"
    /\ "force" \in DOMAIN rk_args
    /\ ~rk_args["force"]
    /\ rk_res[1] = "high"

\* C30: for every tool in WRITE_TOOLS and every argument map assess_risk
\* returns medium or high with a non-empty reason, so a step that carries the
\* assessor's output draws neither the validator's low-risk error nor its
\* missing-reason error.
C30_WriteToolsAssessedRisky ==
    (rk_done /\ rk_tool \in WRITE_TOOLS) =>
        /\ rk_res[1] \in {"medium", "high"}
        /\ rk_res[2] # <<>>
        /\ RiskErrors(<<Step(rk_tool, rk_args, rk_res[1], rk_res[2], TRUE)>>) = <<>>

\* file_write with a path has been rated: the reason is the formatted one
C30_Witness ==
    /\ rk_done
    /\ rk_tool = "file_write"
    /\ "path" \in DOMAIN rk_args
    /\ rk_args["path"] = <<"a">>
    /\ rk_res = <<"high", WritePathReason(<<"a">>)>>

-----------------------------------------------------------------------------
(* ToolRegistry: gsa.mcp.registry                                          *)

MaxRegs == 3

\* A handler as inspect.signature shows it: the keyword parameters it
\* declares, those without a default, and whether it takes **kwargs
Handler(hid, params, required, var_kw) ==
    [hid |-> hid, params |-> params, required |-> required, var_kw |-> var_kw]

Handlers ==
    { Handler("status", {"dry_run"}, {}, FALSE),
      Handler("read", {"path"}, {"path"}, FALSE),
      Handler("write", {"path", "dry_run"}, {"path"}, FALSE),
      Handler("any", {}, {}, TRUE),
      Handler("mixed", {"path"}, {"path"}, TRUE) }

HandlerById(hid) == CHOOSE h \in Handlers : h.hid = hid

RegNames == {"git_status", "file_read"}

\* Argument maps a caller supplies: each of path, dry_run, extra absent or present
RegArgs ==
    { a @@ b @@ c :
        a \in {EmptyArgs, "path" :> <<"a">>},
        b \in {EmptyArgs, "dry_run" :> TRUE, "dry_run" :> FALSE},
        c \in {EmptyArgs, "extra" :> 1} }

\* A filter that lets every supplied argument through
Filtered_All(args, params) == args

\* {k: v for k, v in args.items() if k in sig.parameters}
Filtered(args, params) == [k \in DOMAIN args \cap params |-> args[k]]

\* func(**kwargs): Python raises TypeError for a keyword the function does
\* not take and for a parameter without default that is not given
CallRaises(h, kwargs) ==
    \/ ~h.var_kw /\ ~(DOMAIN kwargs \subseteq h.params)
    \/ ~(h.required \subseteq DOMAIN kwargs)

NoCall == [name |-> "", args |-> EmptyArgs, hid |-> "", recv |-> EmptyArgs, raised |-> "none"]

\* ToolRegistry.__init__
RegInit ==
    /\ rg_tools = <<>>
    /\ rg_first = <<>>
    /\ rg_n = 0
    /\ rg_call = NoCall

\* _tools after _register_tools: each name bound to the method registered
\* under it; the worker's requests read the table by name only
ServerTools == [n \in RegisteredTools |-> n]

\* MCPServer.__init__ has run: one register call for each name
ServerRegistry ==
    /\ rg_tools = ServerTools
    /\ rg_first = [n \in RegisteredTools |-> n]
    /\ rg_n = Cardinality(RegisteredTools)
    /\ rg_call = NoCall

\* ToolRegistry.register(name, description, func)
Register(name, h) ==
    /\ rg_n < MaxRegs
    /\ rg_n' = rg_n + 1
    /\ rg_tools' = (name :> h) @@ rg_tools
    /\ rg_first' = rg_first @@ (name :> h.hid)
    /\ UNCHANGED rg_call
    /\ UNCHANGED nonRegVars

\* ToolRegistry.call(name, args)
Call(name, args) ==
    /\ rg_call' =
          IF name \notin DOMAIN rg_tools
          THEN [name |-> name, args |-> args, hid |-> "", recv |-> EmptyArgs,
                raised |-> "ValueError"]
          ELSE LET h == rg_tools[name]
                   kwargs == IF h.var_kw THEN args ELSE Filtered(args, h.params)
               IN  [name |-> name, args |-> args, hid |-> h.hid, recv |-> kwargs,
                    raised |-> IF CallRaises(h, kwargs) THEN "TypeError" ELSE "none"]
    /\ UNCHANGED <<rg_tools, rg_first, rg_n>>
    /\ UNCHANGED nonRegVars

RegNext ==
    \/ \E name \in RegNames, h \in Handlers : Register(name, h)
    \/ \E name \in RegNames \cup {"git_rebase"}, args \in RegArgs : Call(name, args)

-----------------------------------------------------------------------------
(* Claims about ToolRegistry (SpecRegistry)                                *)

\* C19: a handler without **kwargs is called with exactly the supplied
\* arguments whose keys it declares, and keys it does not declare never
\* make the call fail (only a missing required argument does); a handler
\* with **kwargs is called with every supplied argument.
C19_HandlerGetsDeclaredArgs ==
    rg_call.hid # "" =>
        LET h == HandlerById(rg_call.hid)
            args == rg_call.args
            recv == rg_call.recv
        IN  /\ h.var_kw => recv = args
            /\ ~h.var_kw =>
                  /\ DOMAIN recv = {k \in DOMAIN args : k \in h.params}
                  /\ \A k \in DOMAIN recv : recv[k] = args[k]
            /\ rg_call.raised = "TypeError" <=> ~(h.required \subseteq DOMAIN args)
            /\ rg_call.raised # "ValueError"

\* The handler declaring path alone was called with path, dry_run and extra
\* and received path alone, without failing
C19_Witness ==
    /\ rg_call.hid = "read"
    /\ DOMAIN rg_call.args = {"path", "dry_run", "extra"}
    /\ DOMAIN rg_call.recv = {"path"}
    /\ rg_call.raised = "none"

\* C20: the registry holds one entry per name, and the entry for a name is
\* the handler of the first register call for that name, however many
\* register calls followed.
C20_FirstRegistrationStays ==
    /\ DOMAIN rg_tools = DOMAIN rg_first
    /\ \A name \in DOMAIN rg_tools : rg_tools[name].hid = rg_first[name]

\* C29: every line the worker reads that holds a JSON object gets exactly
\* one response line with the request's id, appended after the responses to
\* the requests read before it; a blank line and a line that is not JSON
\* add nothing to the output.
C29_OneResponseInOrder ==
    [][ (alive /\ stdin # <<>> /\ stdin' # stdin) =>
          LET line == Head(stdin)
          IN  /\ line.kind = "object" =>
                    /\ Len(stdout') = Len(stdout) + 1
                    /\ SubSeq(stdout', 1, Len(stdout)) = stdout
                    /\ stdout'[Len(stdout')].id = line.id
              /\ line.kind \in {"blank", "garbage"} => stdout' = stdout
      ]_vars

\* C21: no request changes the worker's table: tools/list names the same
\* tools before and after every request, those registered at start-up, and
\* a tools/call that is answered with a result names one of them.
C21_RegistryFixedAfterStartup ==
    [][ /\ rg_tools' = rg_tools
        /\ list_tools' = list_tools
        /\ list_tools = RegisteredTools
        /\ (ServesObject /\ Head(stdin).method = "tools/call" /\ alive'
               /\ stdout'[Len(stdout')].kind = "result") =>
              Head(stdin).params.name \in RegisteredTools
      ]_vars

\* The worker has answered two requests, a tools/call for an unregistered
\* name among them, and the table is as it was
C21_Witness ==
    /\ alive
    /\ stdin = <<>>
    /\ Len(stdout) = 2
    /\ stdout[1].kind = "error"
    /\ stdout[1].message = "unregistered tool"
    /\ stdout[2].kind = "result"
    /\ rg_tools = ServerTools

-----------------------------------------------------------------------------
(* The write handlers: gsa.tools.git_impl.GitTool, gsa.tools.file_impl.     *)
(* A call finds a repository and file state; the git commands it runs and   *)
(* the file operations it makes are recorded.                               *)

\* What the queries of a handler find: the workspace is a repository, the
\* work tree has changes, the index has staged files, _safe_path accepts the
\* path, the path exists, the path is a directory
HandlerEnvs ==
    { e \in [is_repo : BOOLEAN, dirty : BOOLEAN, staged : BOOLEAN,
             path_ok : BOOLEAN, exists : BOOLEAN, is_dir : BOOLEAN] :
        e.is_dir => e.exists }

\* What the tests of a handler find in its arguments: the required string or
\* list is empty, "." is among paths, allow_all / allow_dirty is set, a
\* string argument holds a fragment validate_git_args refuses
HandlerArgs == [empty : BOOLEAN, dot : BOOLEAN, allow : BOOLEAN, blocked : BOOLEAN]

\* dry_run as passed: true, false, or left to the default
DryModes == {"true", "false", "absent"}

\* `if dry_run:` with the parameter's default of True
IsDry(d) == d # "false"

RevParse == <<"rev-parse", "--is-inside-work-tree">>

StatusPorcelain == <<"status", "--porcelain">>

DiffCached == <<"diff", "--cached", "--name-only">>

DiffUnmerged == <<"diff", "--name-only", "--diff-filter=U">>

HRet(ok, dry) == [kind |-> "returned", ok |-> ok, dry_run |-> dry, err |-> ""]

HRaise(cls) == [kind |-> "raised", ok |-> FALSE, dry_run |-> FALSE, err |-> cls]

NoResultYet == [kind |-> "none", ok |-> FALSE, dry_run |-> FALSE, err |-> ""]

Out(cmds, effects, res) == [cmds |-> cmds, effects |-> effects, res |-> res]

\* self._run(cmd) on arguments taken from the caller, after the commands in
\* cmds: validate_git_args raises before any subprocess starts
RunUser(cmds, cmd, a, rc) ==
    IF a.blocked
    THEN Out(cmds, {}, HRaise("PolicyError"))
    ELSE Out(Append(cmds, cmd), {}, HRet(rc, FALSE))

\* _ensure_repo returned an error, or an argument test failed after it
Refused(cmds) == Out(cmds, {}, HRet(FALSE, FALSE))

init_repo(e, a, d, rc) ==
    IF e.is_repo THEN Refused(<<RevParse>>)
    ELSE IF IsDry(d) THEN Out(<<RevParse>>, {}, HRet(TRUE, TRUE))
    ELSE Out(<<RevParse, <<"init">>>>, {}, HRet(rc, FALSE))

add(e, a, d, rc) ==
    IF ~e.is_repo \/ a.empty \/ (a.dot /\ ~a.allow) THEN Refused(<<RevParse>>)
    ELSE IF IsDry(d) THEN Out(<<RevParse, StatusPorcelain>>, {}, HRet(TRUE, TRUE))
    ELSE RunUser(<<RevParse, StatusPorcelain>>, <<"add", "PATHS">>, a, rc)

commit(e, a, d, rc) ==
    IF ~e.is_repo \/ a.empty THEN Refused(<<RevParse>>)
    ELSE IF ~e.staged THEN Refused(<<RevParse, DiffCached>>)
    ELSE IF IsDry(d) THEN Out(<<RevParse, DiffCached>>, {}, HRet(TRUE, TRUE))
    ELSE RunUser(<<RevParse, DiffCached>>, <<"commit", "-m", "MESSAGE">>, a, rc)

\* switch; the command is `switch BRANCH` or `switch -c BRANCH`
switch(e, a, d, rc) ==
    IF ~e.is_repo \/ a.empty THEN Refused(<<RevParse>>)
    ELSE IF e.dirty /\ ~a.allow THEN Refused(<<RevParse, StatusPorcelain>>)
    ELSE IF IsDry(d) THEN Out(<<RevParse, StatusPorcelain>>, {}, HRet(TRUE, TRUE))
    ELSE RunUser(<<RevParse, StatusPorcelain>>, <<"switch", "BRANCH">>, a, rc)

create_branch(e, a, d, rc) ==
    IF ~e.is_repo \/ a.empty THEN Refused(<<RevParse>>)
    ELSE IF IsDry(d) THEN Out(<<RevParse>>, {}, HRet(TRUE, TRUE))
    ELSE RunUser(<<RevParse>>, <<"branch", "NAME", "FROM_REF">>, a, rc)

delete_branch(e, a, d, rc) ==
    IF ~e.is_repo \/ a.empty THEN Refused(<<RevParse>>)
    ELSE IF IsDry(d) THEN Out(<<RevParse>>, {}, HRet(TRUE, TRUE))
    ELSE RunUser(<<RevParse>>, <<"branch", "FLAG", "NAME">>, a, rc)

stash_push(e, a, d, rc) ==
    IF ~e.is_repo THEN Refused(<<RevParse>>)
    ELSE IF IsDry(d) THEN Out(<<RevParse>>, {}, HRet(TRUE, TRUE))
    ELSE RunUser(<<RevParse>>, <<"stash", "push">>, a, rc)

stash_pop(e, a, d, rc) ==
    IF ~e.is_repo THEN Refused(<<RevParse>>)
    ELSE IF IsDry(d) THEN Out(<<RevParse>>, {}, HRet(TRUE, TRUE))
    ELSE RunUser(<<RevParse>>, <<"stash", "pop", "REF">>, a, rc)

\* merge with the dry_run test after the merge command
merge_RunsFirst(e, a, d, rc) ==
    IF ~e.is_repo \/ a.empty THEN Refused(<<RevParse>>)
    ELSE IF a.blocked THEN Out(<<RevParse>>, {}, HRaise("PolicyError"))
    ELSE IF IsDry(d) THEN Out(<<RevParse, <<"merge", "TARGET">>>>, {}, HRet(TRUE, TRUE))
    ELSE Out(<<RevParse, <<"merge", "TARGET">>>>, {}, HRet(rc, FALSE))

merge(e, a, d, rc) ==
    IF ~e.is_repo \/ a.empty THEN Refused(<<RevParse>>)
    ELSE IF IsDry(d) THEN Out(<<RevParse>>, {}, HRet(TRUE, TRUE))
    ELSE IF a.blocked THEN Out(<<RevParse>>, {}, HRaise("PolicyError"))
    ELSE IF rc THEN Out(<<RevParse, <<"merge", "TARGET">>>>, {}, HRet(TRUE, FALSE))
    ELSE Out(<<RevParse, <<"merge", "TARGET">>, DiffUnmerged>>, {}, HRet(FALSE, FALSE))

\* FileTool.write; rc is whether makedirs and open(target, "w") succeed
write(e, a, d, rc) ==
    IF ~e.path_ok THEN Out(<<>>, {}, HRaise("PolicyError"))
    ELSE IF e.is_dir THEN Out(<<>>, {"open_r"}, HRaise("IsADirectoryError"))
    ELSE IF IsDry(d)
    THEN Out(<<>>, IF e.exists THEN {"open_r"} ELSE {}, HRet(TRUE, TRUE))
    ELSE IF rc
    THEN Out(<<>>, (IF e.exists THEN {"open_r"} ELSE {}) \cup {"makedirs", "open_w"},
             HRet(TRUE, FALSE))
    ELSE Out(<<>>, (IF e.exists THEN {"open_r"} ELSE {}) \cup {"makedirs"}, HRaise("OSError"))

\* FileTool.patch; rc is the exit status of the patch program
patch(e, a, d, rc) ==
    IF ~e.path_ok THEN Out(<<>>, {}, HRaise("PolicyError"))
    ELSE IF ~e.exists THEN Out(<<>>, {}, HRet(FALSE, FALSE))
    ELSE IF e.is_dir THEN Out(<<>>, {"open_r"}, HRaise("IsADirectoryError"))
    ELSE IF a.empty THEN Out(<<>>, {"open_r"}, HRet(FALSE, FALSE))
    ELSE IF IsDry(d) THEN Out(<<>>, {"open_r"}, HRet(TRUE, TRUE))
    ELSE Out(<<>>, {"open_r", "patch"}, HRet(rc, FALSE))

\* The handler _register_tools binds to each write tool
WriteHandler(tool, e, a, d, rc) ==
    CASE tool = "git_init" -> init_repo(e, a, d, rc)
      [] tool = "git_add" -> add(e, a, d, rc)
      [] tool = "git_commit" -> commit(e, a, d, rc)
      [] tool = "git_switch" -> switch(e, a, d, rc)
      [] tool = "git_create_branch" -> create_branch(e, a, d, rc)
      [] tool = "git_delete_branch" -> delete_branch(e, a, d, rc)
      [] tool = "git_stash_push" -> stash_push(e, a, d, rc)
      [] tool = "git_stash_pop" -> stash_pop(e, a, d, rc)
      [] tool = "git_merge" -> merge(e, a, d, rc)
      [] tool = "file_write" -> write(e, a, d, rc)
      [] tool = "file_patch" -> patch(e, a, d, rc)

NoHandlerCall == [tool |-> "", dry |-> "absent"]

NoOut == Out(<<>>, {}, NoResultYet)

HandlerInit ==
    /\ hd_call = NoHandlerCall
    /\ hd_env \in HandlerEnvs
    /\ hd_args \in HandlerArgs
    /\ hd_out = NoOut

\* One call of a write handler
HandlerCall(tool, d, rc) ==
    /\ hd_call = NoHandlerCall
    /\ hd_call' = [tool |-> tool, dry |-> d]
    /\ hd_out' = WriteHandler(tool, hd_env, hd_args, d, rc)
    /\ UNCHANGED <<hd_env, hd_args>>
    /\ UNCHANGED nonHdVars

HandlerNext == \E tool \in WRITE_TOOLS, d \in DryModes, rc \in BOOLEAN : HandlerCall(tool, d, rc)

\* no write handler has been called
HdIdle ==
    /\ hd_call = NoHandlerCall
    /\ hd_env = [is_repo |-> FALSE, dirty |-> FALSE, staged |-> FALSE,
                 path_ok |-> FALSE, exists |-> FALSE, is_dir |-> FALSE]
    /\ hd_args = [empty |-> FALSE, dot |-> FALSE, allow |-> FALSE, blocked |-> FALSE]
    /\ hd_out = NoOut

-----------------------------------------------------------------------------
(* Claims about the write handlers (SpecHandlers)                           *)

\* git sub-commands that leave the repository as it is
IsQuery(cmd) == cmd[1] \in {"rev-parse", "status", "diff"}

\* The call changed nothing: only queries were run, files were at most read
NoEffect(out) ==
    /\ \A k \in 1..Len(out.cmds) : IsQuery(out.cmds[k])
    /\ out.effects \subseteq {"open_r"}

\* C28 as stated: a write handler called with dry_run=true or without
\* dry_run runs no mutating git command and writes no file, and returns
\* either ok=false or ok=true with dry_run=true.
C28_DryRunReturnsWithoutEffect ==
    (hd_call.tool \in WRITE_TOOLS /\ hd_call.dry \in {"true", "absent"}) =>
        /\ NoEffect(hd_out)
        /\ hd_out.res.kind = "returned"
        /\ ~hd_out.res.ok \/ hd_out.res.dry_run

\* C28 amended: a write handler called with dry_run=true or without dry_run
\* runs no mutating git command and writes no file; it returns ok=false, or
\* ok=true with dry_run=true, or, for file_write and file_patch only, raises
\* (PolicyError for a refused path, an OS error for a directory).
C28_DryRunHasNoEffect ==
    (hd_call.tool \in WRITE_TOOLS /\ hd_call.dry \in {"true", "absent"}) =>
        /\ NoEffect(hd_out)
        /\ hd_out.res.kind \in {"returned", "raised"}
        /\ hd_out.res.kind = "returned" => (~hd_out.res.ok \/ hd_out.res.dry_run)
        /\ hd_out.res.kind = "raised" =>
              /\ hd_call.tool \in {"file_write", "file_patch"}
              /\ hd_out.res.err \in {"PolicyError", "IsADirectoryError"}

\* git_merge called without dry_run in a repository: one query, and the
\* would-be command reported
C28_Witness ==
    /\ hd_call = [tool |-> "git_merge", dry |-> "absent"]
    /\ hd_env.is_repo /\ ~hd_args.empty
    /\ hd_out = Out(<<RevParse>>, {}, HRet(TRUE, TRUE))

-----------------------------------------------------------------------------
(* A handed-off Plan through Orchestrator.plan's validation and execute     *)

\* Plans the planner hands off: a write whose args carry their own dry_run
\* followed by a read, a write followed by an unregistered tool, no step
LifePlans ==
    { Plan("i", <<>>, n, st) :
        n \in BOOLEAN,
        st \in { <<Step("file_write", ("path" :> <<"a">>) @@ ("dry_run" :> FALSE), "high", <<"w">>, TRUE),
                   Step("git_status", EmptyArgs, "low", <<"r", "o">>, TRUE)>>,
                 <<Step("git_commit", ("message" :> <<"m">>), "medium", <<"c">>, TRUE),
                   Step("git_rebase", EmptyArgs, "medium", <<"u">>, TRUE)>>,
                 <<>> } }

\* A validator that repairs the plan it checks: needs_confirmation is set
\* when the plan has a write step
PlanAfterValidate_SetsConfirmation(p, tools) ==
    IF WriteSteps(p.steps) # <<>> THEN [p EXCEPT !.needs_confirmation = TRUE] ELSE p

\* The Plan object after validate_plan(p, tools): lines 28-53 read plan.steps,
\* plan.questions, plan.needs_confirmation and the steps' fields, and assign
\* to none of them
PlanAfterValidate(p, tools) == p

LifeInit ==
    /\ plan \in LifePlans
    /\ pc = "idle"
    /\ idx = 0
    /\ confirmed = FALSE
    /\ results = <<>>
    /\ outcome = "none"
    /\ ret = NoRet
    /\ runs = 0
    /\ mcp_id = 0
    /\ stdin = <<>>
    /\ stdout = <<>>
    /\ alive = TRUE
    /\ sent = <<>>
    /\ skipped = {}
    /\ gated = <<>>

\* errors = validate_plan(plan, self.mcp.list_tools()) on the handed-off plan,
\* before or between execute calls
ValidateHandedOff ==
    /\ pc = "idle"
    /\ vplan' = plan
    /\ vtools' = list_tools
    /\ vraised' = ValidateRaises(plan)
    /\ verrors' = IF ValidateRaises(plan) THEN <<>> ELSE validate_plan(plan, list_tools)
    /\ vdone' = TRUE
    /\ plan' = PlanAfterValidate(plan, list_tools)
    /\ UNCHANGED <<pc, idx, confirmed, results, outcome, ret, runs, mcp_id, stdin, stdout,
                   alive, sent, skipped, gated>>
    /\ UNCHANGED <<gitVars, fileVars, planVars, riskVars, regVars, hdVars>>

LifeNext ==
    \/ ValidateHandedOff
    \/ \E c \in BOOLEAN : Execute(c)
    \/ ClientRead
    \/ ClientEOF
    \/ WorkerServe
    \/ WorkerExit

-----------------------------------------------------------------------------
(* Claims about the handed-off Plan (SpecLife)                              *)

\* Plan q is plan p but for the dry_run of its steps
SameButDryRun(p, q) ==
    /\ Len(q.steps) = Len(p.steps)
    /\ [q EXCEPT !.steps = p.steps] = p
    /\ \A k \in 1..Len(p.steps) :
          [q.steps[k] EXCEPT !.dry_run = p.steps[k].dry_run] = p.steps[k]

\* C26: once handed off, a Plan changes only in the dry_run of its steps and
\* only where apply_confirmation runs: validate_plan leaves the Plan as it
\* is, so validating the same plan against the same tools again returns the
\* same errors, and execute leaves intent, questions, needs_confirmation, the
\* step list and each step's tool, args, safety_level and safety_reason alone.
C26_OnlyGateChangesPlan ==
    [][ /\ SameButDryRun(plan, plan')
        /\ (plan' # plan) => (runs' # runs /\ plan' = apply_confirmation(plan, confirmed'))
        /\ (runs' = runs) => plan' = plan
        /\ (vdone /\ vdone' /\ vplan' = vplan /\ vtools' = vtools) => verrors' = verrors
      ]_vars

\* The plan was validated after a confirmed execute had lifted its write step,
\* and validation reported its missing confirmation flag
C26_Witness ==
    /\ vdone /\ runs > 0 /\ confirmed /\ pc = "idle"
    /\ vplan = plan
    /\ ~plan.needs_confirmation
    /\ Len(plan.steps) = 2
    /\ plan.steps[1].tool = "file_write" /\ ~plan.steps[1].dry_run
    /\ plan.steps[2].dry_run
    /\ verrors # <<>>

-----------------------------------------------------------------------------
(* Specifications.  Each runs one component; the others stay in their      *)
(* initial state.                                                          *)

\* execute is not running
ExecIdle ==
    /\ plan = Plan("i", <<>>, FALSE, <<>>)
    /\ pc = "idle"
    /\ idx = 0
    /\ confirmed = FALSE
    /\ results = <<>>
    /\ outcome = "none"
    /\ ret = NoRet
    /\ runs = 0
    /\ mcp_id = 0
    /\ stdin = <<>>
    /\ stdout = <<>>
    /\ alive = TRUE
    /\ sent = <<>>
    /\ skipped = {}
    /\ gated = <<>>

\* validate_plan is not running
ValIdle ==
    /\ vplan = Plan("i", <<>>, FALSE, <<>>)
    /\ vtools = {}
    /\ verrors = <<>>
    /\ vdone = FALSE
    /\ vraised = FALSE

\* no git command has been run
GitIdle ==
    /\ git_args = <<>>
    /\ git_raised = FALSE
    /\ git_proc = NoGitCommand

\* no file operation has been called
FileIdle ==
    /\ fs_links = {}
    /\ fs_files = RealFiles
    /\ ft_path = Workspace
    /\ ft_op = "none"
    /\ ft_res = Returned(TRUE)
    /\ ft_opened = {}
    /\ ft_written = {}

\* Orchestrator.plan has not been called
PlanIdle ==
    /\ pl_text = <<>>
    /\ pl_use_llm = FALSE
    /\ pl_result = PlanResult(<<>>, <<>>)
    /\ pl_recent_branch = <<>>
    /\ pl_done = FALSE
    /\ pl_llm = NoReply
    /\ pl_sent = <<>>

\* assess_risk has not been called
RiskIdle ==
    /\ rk_tool = ""
    /\ rk_args = EmptyArgs
    /\ rk_res = NoRisk
    /\ rk_done = FALSE

Init == ExecInit /\ ValIdle /\ GitIdle /\ FileIdle /\ PlanIdle /\ RiskIdle /\ ServerRegistry /\ HdIdle

Next == ExecNext

\* Orchestrator.execute against the worker
Spec == Init /\ [][Next]_vars

InitValidate == ValInit /\ ExecIdle /\ GitIdle /\ FileIdle /\ PlanIdle /\ RiskIdle /\ RegInit /\ HdIdle

\* validate_plan on bounded plans and tool lists
SpecValidate == InitValidate /\ [][ValNext]_vars

InitGit == GitIdle /\ ExecIdle /\ ValIdle /\ FileIdle /\ PlanIdle /\ RiskIdle /\ RegInit /\ HdIdle

\* Any sequence of GitTool._run calls
SpecGit == InitGit /\ [][GitNext]_vars

InitFiles == FileInit /\ ExecIdle /\ ValIdle /\ GitIdle /\ PlanIdle /\ RiskIdle /\ RegInit /\ HdIdle

\* One policy or FileTool call on a bounded file system and path
SpecFiles == InitFiles /\ [][FileNext]_vars

InitPlan == PlanInit /\ ExecIdle /\ ValIdle /\ GitIdle /\ FileIdle /\ RiskIdle /\ RegInit /\ HdIdle

\* One call of Orchestrator.plan on a bounded text
SpecPlan == InitPlan /\ [][PlanNext]_vars

InitLong == LongInit /\ ExecIdle /\ GitIdle /\ FileIdle /\ PlanIdle /\ RiskIdle /\ RegInit /\ HdIdle

\* One call of validate_plan on a long plan
SpecLong == InitLong /\ [][ValNext]_vars

InitClient ==
    ClientInit /\ ValIdle /\ GitIdle /\ FileIdle /\ PlanIdle /\ RiskIdle /\ ServerRegistry /\ HdIdle

\* execute over a channel that carries stray lines
SpecClient == InitClient /\ [][ClientNext]_vars

InitLife ==
    LifeInit /\ ValIdle /\ GitIdle /\ FileIdle /\ PlanIdle /\ RiskIdle /\ ServerRegistry /\ HdIdle

\* A handed-off plan validated and executed in any order
SpecLife == InitLife /\ [][LifeNext]_vars

InitServer ==
    ServerInit /\ ValIdle /\ GitIdle /\ FileIdle /\ PlanIdle /\ RiskIdle /\ ServerRegistry /\ HdIdle

\* The worker serving the lines of its input
SpecServer == InitServer /\ [][ServerNext]_vars

InitRisk == RiskInit /\ ExecIdle /\ ValIdle /\ GitIdle /\ FileIdle /\ PlanIdle /\ RegInit /\ HdIdle

\* One call of assess_risk
SpecRisk == InitRisk /\ [][RiskNext]_vars

InitHandlers ==
    HandlerInit /\ ExecIdle /\ ValIdle /\ GitIdle /\ FileIdle /\ PlanIdle /\ RiskIdle /\ RegInit

\* One call of a write handler
SpecHandlers == InitHandlers /\ [][HandlerNext]_vars

InitRegistry ==
    RegInit /\ ExecIdle /\ ValIdle /\ GitIdle /\ FileIdle /\ PlanIdle /\ RiskIdle /\ HdIdle

\* register and call in any order
SpecRegistry == InitRegistry /\ [][RegNext]_vars

====
